---------------------------- MODULE Spec2Model ----------------------------
(***************************************************************************)
(* Model of the field-extraction engine of the OCR blood-report reader:    *)
(* the format detector, the dispatch in parse_medical_report (the package  *)
(* entry point in parsers/__init__.py and the pipeline's own copy in       *)
(* ocr_processor.py), the three fixed-layout readers and the universal     *)
(* parser with its token classifiers.                                      *)
(*                                                                         *)
(* A Python str is modelled as a sequence of one-character strings, so     *)
(* that strip, lower, upper, split, replace, "in" and startswith are       *)
(* computed character by character as the code computes them.              *)
(***************************************************************************)
EXTENDS Integers, Sequences, FiniteSets, TLC

----------------------------------------------------------------------------
(* Python str operations *)

UpperChars ==
  <<"A","B","C","D","E","F","G","H","I","J","K","L","M",
    "N","O","P","Q","R","S","T","U","V","W","X","Y","Z">>

LowerChars ==
  <<"a","b","c","d","e","f","g","h","i","j","k","l","m",
    "n","o","p","q","r","s","t","u","v","w","x","y","z">>

Digits == {"0","1","2","3","4","5","6","7","8","9"}

Whitespace == {" ", "\t", "\n", "\r"}

UpperSet == {UpperChars[k] : k \in 1..26}

LowerSet == {LowerChars[k] : k \in 1..26}

LowerOf == [c \in UpperSet |-> LowerChars[CHOOSE k \in 1..26 : UpperChars[k] = c]]

UpperOf == [c \in LowerSet |-> UpperChars[CHOOSE k \in 1..26 : LowerChars[k] = c]]

\* str.lower()
lower(s) == [k \in 1..Len(s) |-> IF s[k] \in UpperSet THEN LowerOf[s[k]] ELSE s[k]]

\* str.upper()
upper(s) == [k \in 1..Len(s) |-> IF s[k] \in LowerSet THEN UpperOf[s[k]] ELSE s[k]]

\* str.strip()
strip(s) ==
  LET keep == {k \in 1..Len(s) : s[k] \notin Whitespace}
  IN IF keep = {} THEN <<>>
     ELSE SubSeq(s, CHOOSE k \in keep : \A m \in keep : k <= m,
                    CHOOSE k \in keep : \A m \in keep : m <= k)

\* pat in s
contains(s, pat) ==
  \E k \in 0..(Len(s) - Len(pat)) : SubSeq(s, k + 1, k + Len(pat)) = pat

\* s.startswith(pat)
startswith(s, pat) ==
  Len(pat) <= Len(s) /\ SubSeq(s, 1, Len(pat)) = pat

\* s.find(pat) + 1: position of the first occurrence, 0 when there is none
find(s, pat) ==
  IF contains(s, pat)
  THEN CHOOSE k \in 1..(Len(s) - Len(pat) + 1) :
         /\ SubSeq(s, k, k + Len(pat) - 1) = pat
         /\ \A m \in 1..(k - 1) : SubSeq(s, m, m + Len(pat) - 1) # pat
  ELSE 0

\* s.replace(pat, rep), pat non-empty: occurrences replaced left to right
RECURSIVE replace(_, _, _)
replace(s, pat, rep) ==
  LET k == find(s, pat)
  IN IF k = 0 THEN s
     ELSE SubSeq(s, 1, k - 1) \o rep
            \o replace(SubSeq(s, k + Len(pat), Len(s)), pat, rep)

\* s.split(sep, 1) for a one-character sep: <<s>> when sep does not occur,
\* else <<text before the first sep, text after it>>
split1(s, sep) ==
  LET k == find(s, <<sep>>)
  IN IF k = 0 THEN <<s>>
     ELSE <<SubSeq(s, 1, k - 1), SubSeq(s, k + 1, Len(s))>>

\* any(c.isdigit() for c in s)
any_digit(s) == \E k \in 1..Len(s) : s[k] \in Digits

\* " ".join(ss)
RECURSIVE join(_)
join(ss) ==
  IF Len(ss) = 0 THEN <<>>
  ELSE IF Len(ss) = 1 THEN ss[1]
  ELSE ss[1] \o <<" ">> \o join(Tail(ss))

\* ss[:n]
take(ss, n) == SubSeq(ss, 1, IF Len(ss) < n THEN Len(ss) ELSE n)

\* the bare punctuation tokens the scanners skip: [':', '.', '"', "'"]
Separators == { <<":">>, <<".">>, <<"\"">>, <<"'">> }

----------------------------------------------------------------------------
(* Field dictionaries: ordered as the dict literals are, because the code   *)
(* iterates them in insertion order and takes the first match.              *)

COMMON_PATIENT_FIELDS ==
  <<
   [field |-> "patient_id", keywords |-> <<
       <<"p","a","t","i","e","n","t"," ","i","d">>,   \* 'patient id'
       <<"p","a","t","i","e","n","t"," ","n","o">>,   \* 'patient no'
       <<"l","a","b"," ","n","o">>,   \* 'lab no'
       <<"r","e","s","u","l","t"," ","n","o">>,   \* 'result no'
       <<"p","h","c","r">>,   \* 'phcr'
       <<"b","o","o","k","i","n","g"," ","n","o">>   \* 'booking no'
     >>],
   [field |-> "patient_name", keywords |-> <<
       <<"n","a","m","e">>,   \* 'name'
       <<"p","a","t","i","e","n","t"," ","n","a","m","e">>,   \* 'patient name'
       <<"u","s","e","r">>   \* 'user'
     >>],
   [field |-> "age", keywords |-> <<
       <<"a","g","e">>   \* 'age'
     >>],
   [field |-> "gender", keywords |-> <<
       <<"g","e","n","d","e","r">>,   \* 'gender'
       <<"s","e","x">>   \* 'sex'
     >>],
   [field |-> "age_gender", keywords |-> <<
       <<"a","g","e","/","g","e","n","d","e","r">>,   \* 'age/gender'
       <<"a","g","e","/","s","e","x">>   \* 'age/sex'
     >>],
   [field |-> "collection_date", keywords |-> <<
       <<"c","o","l","l","e","c","t","i","o","n"," ","d","a","t","e">>,   \* 'collection date'
       <<"s","a","m","p","l","e"," ","c","o","l","l","e","c","t","e","d">>,   \* 'sample collected'
       <<"r","e","c","e","i","v","e","d"," ","d","a","t","e">>   \* 'received date'
     >>],
   [field |-> "report_date", keywords |-> <<
       <<"r","e","p","o","r","t"," ","d","a","t","e">>,   \* 'report date'
       <<"r","e","p","o","r","t","i","n","g"," ","d","a","t","e">>,   \* 'reporting date'
       <<"r","e","s","u","l","t","s"," ","s","a","v","e","d">>,   \* 'results saved'
       <<"r","e","l","e","a","s","e"," ","d","a","t","e">>   \* 'release date'
     >>],
   [field |-> "referring_doctor", keywords |-> <<
       <<"r","e","f","e","r","r","e","d"," ","b","y">>,   \* 'referred by'
       <<"r","e","f","e","r","r","i","n","g"," ","d","o","c","t","o","r">>,   \* 'referring doctor'
       <<"c","o","n","s","u","l","t","a","n","t">>,   \* 'consultant'
       <<"d","r",".">>   \* 'dr.'
     >>],
   [field |-> "phone", keywords |-> <<
       <<"p","h","o","n","e">>,   \* 'phone'
       <<"m","o","b","i","l","e">>,   \* 'mobile'
       <<"p","h","o","n","e"," ","n","o">>   \* 'phone no'
     >>],
   [field |-> "specimen", keywords |-> <<
       <<"s","p","e","c","i","m","e","n">>   \* 'specimen'
     >>],
   [field |-> "ward_bed", keywords |-> <<
       <<"w","a","r","d">>,   \* 'ward'
       <<"b","e","d">>   \* 'bed'
     >>],
   [field |-> "report_id", keywords |-> <<
       <<"r","e","p","o","r","t"," ","i","d">>   \* 'report id'
     >>],
   [field |-> "passport_no", keywords |-> <<
       <<"p","a","s","s","p","o","r","t"," ","n","o">>   \* 'passport no'
     >>]
  >>

COMMON_LAB_FIELDS ==
  <<
   [field |-> "name", keywords |-> <<
       <<"l","a","b","o","r","a","t","o","r","y">>,   \* 'laboratory'
       <<"l","a","b">>,   \* 'lab'
       <<"d","i","a","g","n","o","s","t","i","c">>,   \* 'diagnostic'
       <<"p","a","t","h","o","l","o","g","y">>,   \* 'pathology'
       <<"m","e","d","i","c","a","l">>,   \* 'medical'
       <<"f","o","u","n","d","a","t","i","o","n">>,   \* 'foundation'
       <<"c","l","i","n","i","c">>,   \* 'clinic'
       <<"c","e","n","t","r","e">>   \* 'centre'
     >>],
   [field |-> "address", keywords |-> <<
       <<"a","d","d","r","e","s","s">>   \* 'address'
     >>],
   [field |-> "phone", keywords |-> <<
       <<"p","h","o","n","e">>,   \* 'phone'
       <<"t","e","l">>,   \* 'tel'
       <<"t","e","l","e","p","h","o","n","e">>   \* 'telephone'
     >>],
   [field |-> "email", keywords |-> <<
       <<"e","m","a","i","l">>,   \* 'email'
       <<"@">>   \* '@'
     >>],
   [field |-> "website", keywords |-> <<
       <<"w","w","w">>,   \* 'www'
       <<"h","t","t","p">>,   \* 'http'
       <<"h","t","t","p","s">>   \* 'https'
     >>],
   [field |-> "phcr_number", keywords |-> <<
       <<"p","h","c","r">>   \* 'phcr'
     >>]
  >>

COMMON_TEST_NAMES ==
  <<
   [field |-> "haemoglobin", keywords |-> <<
       <<"h","a","e","m","o","g","l","o","b","i","n">>,   \* 'haemoglobin'
       <<"h","e","m","o","g","l","o","b","i","n">>,   \* 'hemoglobin'
       <<"h","b">>,   \* 'hb'
       <<"h","g","b">>   \* 'hgb'
     >>],
   [field |-> "wbc", keywords |-> <<
       <<"w","b","c">>,   \* 'wbc'
       <<"w","h","i","t","e"," ","b","l","o","o","d"," ","c","e","l","l">>,   \* 'white blood cell'
       <<"t","o","t","a","l"," ","l","e","u","c","o","c","y","t","e"," ","c","o","u","n","t">>,   \* 'total leucocyte count'
       <<"t","o","t","a","l"," ","w",".","b",".","c",".">>,   \* 'total w.b.c.'
       <<"t","o","t","a","l"," ","w","b","c">>,   \* 'total wbc'
       <<"l","e","u","c","o","c","y","t","e"," ","c","o","u","n","t">>   \* 'leucocyte count'
     >>],
   [field |-> "rbc", keywords |-> <<
       <<"r","b","c">>,   \* 'rbc'
       <<"r","e","d"," ","b","l","o","o","d"," ","c","e","l","l">>,   \* 'red blood cell'
       <<"r",".","b",".","c",".">>,   \* 'r.b.c.'
       <<"r","b","c"," ","c","o","u","n","t">>   \* 'rbc count'
     >>],
   [field |-> "platelet", keywords |-> <<
       <<"p","l","a","t","e","l","e","t">>,   \* 'platelet'
       <<"p","l","a","t","e","l","e","t"," ","c","o","u","n","t">>,   \* 'platelet count'
       <<"p","l","t">>   \* 'plt'
     >>],
   [field |-> "neutrophils", keywords |-> <<
       <<"n","e","u","t","r","o","p","h","i","l","s">>,   \* 'neutrophils'
       <<"p","o","l","y","m","o","r","p","h","s">>,   \* 'polymorphs'
       <<"n","e","u","t","r","o","p","h","i","l">>   \* 'neutrophil'
     >>],
   [field |-> "lymphocytes", keywords |-> <<
       <<"l","y","m","p","h","o","c","y","t","e","s">>,   \* 'lymphocytes'
       <<"l","y","m","p","h","o","c","y","t","e">>   \* 'lymphocyte'
     >>],
   [field |-> "eosinophils", keywords |-> <<
       <<"e","o","s","i","n","o","p","h","i","l","s">>,   \* 'eosinophils'
       <<"e","o","s","i","n","o","p","h","i","l">>   \* 'eosinophil'
     >>],
   [field |-> "monocytes", keywords |-> <<
       <<"m","o","n","o","c","y","t","e","s">>,   \* 'monocytes'
       <<"m","o","n","o","c","y","t","e">>   \* 'monocyte'
     >>],
   [field |-> "basophils", keywords |-> <<
       <<"b","a","s","o","p","h","i","l","s">>,   \* 'basophils'
       <<"b","a","s","o","p","h","i","l">>   \* 'basophil'
     >>],
   [field |-> "absolute_neutrophils", keywords |-> <<
       <<"a","b","s","o","l","u","t","e"," ","n","e","u","t","r","o","p","h","i","l">>,   \* 'absolute neutrophil'
       <<"a","b","s","o","l","u","t","e"," ","n","e","u","t","r","o","p","h","i","l","s">>   \* 'absolute neutrophils'
     >>],
   [field |-> "absolute_lymphocytes", keywords |-> <<
       <<"a","b","s","o","l","u","t","e"," ","l","y","m","p","h","o","c","y","t","e">>,   \* 'absolute lymphocyte'
       <<"a","b","s","o","l","u","t","e"," ","l","y","m","p","h","o","c","y","t","e","s">>   \* 'absolute lymphocytes'
     >>],
   [field |-> "absolute_eosinophils", keywords |-> <<
       <<"a","b","s","o","l","u","t","e"," ","e","o","s","i","n","o","p","h","i","l">>,   \* 'absolute eosinophil'
       <<"a","b","s","o","l","u","t","e"," ","e","o","s","i","n","o","p","h","i","l","s">>   \* 'absolute eosinophils'
     >>],
   [field |-> "absolute_monocytes", keywords |-> <<
       <<"a","b","s","o","l","u","t","e"," ","m","o","n","o","c","y","t","e">>,   \* 'absolute monocyte'
       <<"a","b","s","o","l","u","t","e"," ","m","o","n","o","c","y","t","e","s">>   \* 'absolute monocytes'
     >>],
   [field |-> "absolute_basophils", keywords |-> <<
       <<"a","b","s","o","l","u","t","e"," ","b","a","s","o","p","h","i","l">>,   \* 'absolute basophil'
       <<"a","b","s","o","l","u","t","e"," ","b","a","s","o","p","h","i","l","s">>   \* 'absolute basophils'
     >>],
   [field |-> "mcv", keywords |-> <<
       <<"m","c","v">>,   \* 'mcv'
       <<"m",".","c",".","v",".">>,   \* 'm.c.v.'
       <<"m","e","a","n"," ","c","e","l","l"," ","v","o","l","u","m","e">>   \* 'mean cell volume'
     >>],
   [field |-> "mch", keywords |-> <<
       <<"m","c","h">>,   \* 'mch'
       <<"m",".","c",".","h",".">>,   \* 'm.c.h.'
       <<"m","e","a","n"," ","c","e","l","l"," ","h","e","m","o","g","l","o","b","i","n">>   \* 'mean cell hemoglobin'
     >>],
   [field |-> "mchc", keywords |-> <<
       <<"m","c","h","c">>,   \* 'mchc'
       <<"m",".","c",".","h",".","c",".">>,   \* 'm.c.h.c.'
       <<"m","e","a","n"," ","c","e","l","l"," ","h","b"," ","c","o","n","c">>,   \* 'mean cell hb conc'
       <<"m","e","a","n"," ","c","e","l","l"," ","h","e","m","o","g","l","o","b","i","n"," ","c","o","n","c","e","n","t","r","a","t","i","o","n">>   \* 'mean cell hemoglobin concentration'
     >>],
   [field |-> "hct", keywords |-> <<
       <<"h","c","t">>,   \* 'hct'
       <<"h",".","c",".","t",".">>,   \* 'h.c.t.'
       <<"h","e","m","a","t","o","c","r","i","t">>,   \* 'hematocrit'
       <<"h","a","e","m","a","t","o","c","r","i","t">>   \* 'haematocrit'
     >>],
   [field |-> "rdw", keywords |-> <<
       <<"r","d","w">>,   \* 'rdw'
       <<"r",".","d",".","w",".">>,   \* 'r.d.w.'
       <<"r","d","w","-","c","v">>,   \* 'rdw-cv'
       <<"r","d","w","-","s","d">>   \* 'rdw-sd'
     >>],
   [field |-> "mpv", keywords |-> <<
       <<"m","p","v">>,   \* 'mpv'
       <<"m",".","p",".","v",".">>,   \* 'm.p.v.'
       <<"m","e","a","n"," ","p","l","a","t","e","l","e","t"," ","v","o","l","u","m","e">>   \* 'mean platelet volume'
     >>],
   [field |-> "pct", keywords |-> <<
       <<"p","c","t">>,   \* 'pct'
       <<"p","l","a","t","e","l","e","t","c","r","i","t">>   \* 'plateletcrit'
     >>],
   [field |-> "pdw", keywords |-> <<
       <<"p","d","w">>   \* 'pdw'
     >>]
  >>

COMMON_MORPHOLOGY_FIELDS ==
  <<
   [field |-> "rbc_morphology", keywords |-> <<
       <<"r","b","c"," ","m","o","r","p","h","o","l","o","g","y">>,   \* 'rbc morphology'
       <<"r","e","d"," ","c","e","l","l"," ","m","o","r","p","h","o","l","o","g","y">>   \* 'red cell morphology'
     >>],
   [field |-> "platelets_on_smear", keywords |-> <<
       <<"p","l","a","t","e","l","e","t","s"," ","o","n"," ","s","m","e","a","r">>,   \* 'platelets on smear'
       <<"p","l","a","t","e","l","e","t"," ","o","n"," ","s","m","e","a","r">>   \* 'platelet on smear'
     >>],
   [field |-> "wbc_morphology", keywords |-> <<
       <<"w","b","c"," ","m","o","r","p","h","o","l","o","g","y">>,   \* 'wbc morphology'
       <<"w","h","i","t","e"," ","c","e","l","l"," ","m","o","r","p","h","o","l","o","g","y">>   \* 'white cell morphology'
     >>]
  >>

COMMON_FOOTER_FIELDS ==
  <<
   [field |-> "doctor_name", keywords |-> <<
       <<"d","r",".">>,   \* 'dr.'
       <<"d","o","c","t","o","r">>   \* 'doctor'
     >>],
   [field |-> "qualification", keywords |-> <<
       <<"m","b","b","s">>,   \* 'mbbs'
       <<"m","d">>,   \* 'md'
       <<"d","c","p">>,   \* 'dcp'
       <<"p","h","d">>   \* 'phd'
     >>],
   [field |-> "registration", keywords |-> <<
       <<"r","e","g","i","s","t","r","a","t","i","o","n">>,   \* 'registration'
       <<"r","e","g"," ","n","o">>,   \* 'reg no'
       <<"r","e","g","."," ","n","o">>   \* 'reg. no'
     >>],
   [field |-> "lab_technician", keywords |-> <<
       <<"l","a","b"," ","t","e","c","h","n","i","c","i","a","n">>,   \* 'lab technician'
       <<"t","e","c","h","n","i","c","i","a","n">>   \* 'technician'
     >>],
   [field |-> "printed_by", keywords |-> <<
       <<"p","r","i","n","t","e","d"," ","b","y">>   \* 'printed by'
     >>],
   [field |-> "printed_on", keywords |-> <<
       <<"p","r","i","n","t","e","d"," ","o","n">>   \* 'printed on'
     >>]
  >>

----------------------------------------------------------------------------
(* Token classifiers *)

\* normalize_text: "" for a falsy text, else lower().strip()
normalize_text(text) == IF Len(text) = 0 THEN <<>> ELSE strip(lower(text))

\* matches_field(text, field_keywords)
matches_field(text, field_keywords) ==
  LET normalized == normalize_text(text)
  IN \E k \in 1..Len(field_keywords) : contains(normalized, field_keywords[k])

\* matches_field(text, COMMON_PATIENT_FIELDS): iterating a dict yields its
\* keys, so the "keywords" tested are the canonical field names themselves
\* (with their underscores), not the keyword lists.
PatientFieldKeys ==
  << <<"p","a","t","i","e","n","t","_","i","d">>,
     <<"p","a","t","i","e","n","t","_","n","a","m","e">>,
     <<"a","g","e">>,
     <<"g","e","n","d","e","r">>,
     <<"a","g","e","_","g","e","n","d","e","r">>,
     <<"c","o","l","l","e","c","t","i","o","n","_","d","a","t","e">>,
     <<"r","e","p","o","r","t","_","d","a","t","e">>,
     <<"r","e","f","e","r","r","i","n","g","_","d","o","c","t","o","r">>,
     <<"p","h","o","n","e">>,
     <<"s","p","e","c","i","m","e","n">>,
     <<"w","a","r","d","_","b","e","d">>,
     <<"r","e","p","o","r","t","_","i","d">>,
     <<"p","a","s","s","p","o","r","t","_","n","o">> >>

\* is_test_name(text)
is_test_name(text) ==
  LET normalized == normalize_text(text)
  IN \E f \in 1..Len(COMMON_TEST_NAMES) :
       \E k \in 1..Len(COMMON_TEST_NAMES[f].keywords) :
         contains(normalized, COMMON_TEST_NAMES[f].keywords[k])

\* digitpart of a Python float literal: digits, single underscores between
digitpart(s) ==
  /\ Len(s) > 0
  /\ s[1] \in Digits /\ s[Len(s)] \in Digits
  /\ \A k \in 1..Len(s) : s[k] \in Digits \/ s[k] = "_"
  /\ \A k \in 1..(Len(s) - 1) : ~(s[k] = "_" /\ s[k + 1] = "_")

\* digits with an optional point: "12", "12.", ".5", "12.5"
pointfloat(s) ==
  \/ digitpart(s)
  \/ \E k \in 1..Len(s) :
       /\ s[k] = "."
       /\ LET a == SubSeq(s, 1, k - 1)
              b == SubSeq(s, k + 1, Len(s))
          IN /\ a = <<>> \/ digitpart(a)
             /\ b = <<>> \/ digitpart(b)
             /\ a # <<>> \/ b # <<>>

unsigned(s) == IF Len(s) > 0 /\ s[1] \in {"+", "-"} THEN Tail(s) ELSE s

\* float(s) succeeds (does not raise ValueError)
float_parses(s) ==
  LET u == unsigned(strip(s))
      lu == lower(u)
  IN \/ lu \in { <<"i","n","f">>, <<"i","n","f","i","n","i","t","y">>, <<"n","a","n">> }
     \/ pointfloat(u)
     \/ \E k \in 1..Len(u) :
          /\ lu[k] = "e"
          /\ pointfloat(SubSeq(u, 1, k - 1))
          /\ digitpart(unsigned(SubSeq(u, k + 1, Len(u))))

\* is_number(text)
is_number(text) ==
  IF Len(text) = 0 THEN FALSE
  ELSE LET cleaned ==
             strip(replace(replace(replace(replace(text,
                     <<"g","/","d","l">>, <<>>), <<"%">>, <<>>),
                     <<"f","l">>, <<>>), <<"p","g">>, <<>>))
       IN float_parses(cleaned)

\* re.search(r'\d+[\s-]+\d+', text)
range_pattern(text) ==
  \E a \in 1..Len(text) : \E b \in (a + 2)..Len(text) :
    /\ text[a] \in Digits
    /\ text[b] \in Digits
    /\ \A k \in (a + 1)..(b - 1) : text[k] \in Whitespace \cup {"-"}

\* is_reference_range without the hyphen-and-digit fallback
is_reference_range_pattern_only(text) ==
  IF Len(text) = 0 THEN FALSE ELSE range_pattern(text)

\* is_reference_range(text)
is_reference_range(text) ==
  IF Len(text) = 0 THEN FALSE
  ELSE IF range_pattern(text) THEN TRUE
  ELSE IF contains(text, <<"-">>) /\ any_digit(text) THEN TRUE
  ELSE FALSE

UNITS ==
  << <<"g","/","d","l">>, <<"g","/","l">>, <<"%">>, <<"f","l">>, <<"p","g">>,
     <<"/","u","l">>, <<"/","c","u","m","m">>, <<"/","l">>,
     <<"m","i","l","l","i","o","n","/","u","l">>, <<"x","1","0","3">>,
     <<"x","1","0","^","3">>, <<"c","e","l","l","s","/","u","l">>,
     <<"l","a","k","h","s">>, <<"c","m","m">>,
     <<"m","i","l","l","/","c","u","m","m">> >>

\* is_unit(text)
is_unit(text) ==
  IF Len(text) = 0 THEN FALSE
  ELSE LET normalized == normalize_text(text)
       IN \E k \in 1..Len(UNITS) : contains(normalized, UNITS[k])

----------------------------------------------------------------------------
(* Python lists and dicts.  A list index is 0-based, as in the source.  A    *)
(* dict is the sequence of its items in insertion order: assigning to a key  *)
(* that is present keeps the key's place, a new key is appended.             *)

\* texts[i]
at(texts, i) == texts[i + 1]

has(d, key) == \E k \in 1..Len(d) : d[k].key = key

get(d, key) == d[CHOOSE k \in 1..Len(d) : d[k].key = key].value

\* d[key] = value
put(d, key, value) ==
  IF has(d, key)
  THEN [k \in 1..Len(d) |-> IF d[k].key = key THEN [key |-> key, value |-> value] ELSE d[k]]
  ELSE Append(d, [key |-> key, value |-> value])

\* Optional[...]: None, or a value
None == [some |-> FALSE]

Some(v) == [some |-> TRUE, value |-> v]

----------------------------------------------------------------------------
(* Universal parser: value extraction and the test-result recognizer *)

\* default of the max_lookahead parameter of extract_value_after_colon
max_lookahead == 3

\* extract_value_after_colon taking a following token that starts with ":"
extract_value_after_colon_colon_tokens(texts, start_idx) ==
  LET parts == IF start_idx < Len(texts) THEN split1(at(texts, start_idx), ":") ELSE <<>>
      stop == IF max_lookahead + 1 < Len(texts) - start_idx
              THEN max_lookahead + 1 ELSE Len(texts) - start_idx
      usable(k) ==
        /\ start_idx + k < Len(texts)
        /\ LET value == strip(at(texts, start_idx + k))
           IN value # <<>> /\ value \notin Separators
      hits == {k \in 1..(stop - 1) : usable(k)}
  IN IF Len(parts) > 1 /\ strip(parts[2]) # <<>>
     THEN Some(strip(parts[2]))
     ELSE IF hits # {}
     THEN Some(strip(at(texts, start_idx + (CHOOSE k \in hits : \A m \in hits : k <= m))))
     ELSE None

\* extract_value_after_colon(texts, start_idx)
extract_value_after_colon(texts, start_idx) ==
  LET parts == IF start_idx < Len(texts) THEN split1(at(texts, start_idx), ":") ELSE <<>>
      stop == IF max_lookahead + 1 < Len(texts) - start_idx
              THEN max_lookahead + 1 ELSE Len(texts) - start_idx
      usable(k) ==
        /\ start_idx + k < Len(texts)
        /\ LET value == strip(at(texts, start_idx + k))
           IN value # <<>> /\ value \notin Separators /\ ~startswith(value, <<":">>)
      hits == {k \in 1..(stop - 1) : usable(k)}
  IN IF Len(parts) > 1 /\ strip(parts[2]) # <<>>
     THEN Some(strip(parts[2]))
     ELSE IF hits # {}
     THEN Some(strip(at(texts, start_idx + (CHOOSE k \in hits : \A m \in hits : k <= m))))
     ELSE None

\* the indices at which extract_value_after_colon(texts, start_idx) reads
\* texts, with the current token read without the "start_idx < len(texts)" test
extract_value_reads_unguarded(texts, start_idx) ==
  {start_idx}

\* the indices at which extract_value_after_colon(texts, start_idx) reads
\* texts: the current token under "if start_idx < len(texts)", then, unless
\* the current token gave the value, the tokens of the for loop under
\* "if start_idx + i < len(texts)", up to the one that is returned
extract_value_reads(texts, start_idx) ==
  LET current == IF start_idx < Len(texts) THEN {start_idx} ELSE {}
      parts == IF start_idx < Len(texts) THEN split1(at(texts, start_idx), ":") ELSE <<>>
      stop == IF max_lookahead + 1 < Len(texts) - start_idx
              THEN max_lookahead + 1 ELSE Len(texts) - start_idx
      usable(k) ==
        /\ start_idx + k < Len(texts)
        /\ LET value == strip(at(texts, start_idx + k))
           IN value # <<>> /\ value \notin Separators /\ ~startswith(value, <<":">>)
      reached(k) == \A m \in 1..(k - 1) : ~usable(m)
  IN IF Len(parts) > 1 /\ strip(parts[2]) # <<>>
     THEN current
     ELSE current \cup { start_idx + k : k \in {m \in 1..(stop - 1) :
                                                  reached(m) /\ start_idx + m < Len(texts)} }

\* the column-header literals parse_test_result refuses as a test name
COLUMN_HEADERS ==
  { <<"T","E","S","T"," ","D","E","S","C","R","I","P","T","I","O","N">>,
    <<"R","E","S","U","L","T">>,
    <<"R","E","F","."," ","R","A","N","G","E">>,
    <<"U","N","I","T">>,
    <<"T","e","s","t"," ","N","a","m","e">>,
    <<"O","b","s","e","r","v","e","d"," ","V","a","l","u","e">>,
    <<"R","e","f","e","r","e","n","c","e"," ","R","a","n","g","e">>,
    <<"I","n","v","e","s","t","i","g","a","t","i","o","n">>,
    <<"U","n","i","t","s">>,
    <<"B","i","o","l","o","g","i","c","a","l"," ","R","e","f","e","r","e","n","c","e"," ","I","n","t","e","r","v","a","l">> }

\* section_headers of parse_test_result
section_headers ==
  { <<"H","A","E","M","A","T","O","L","O","G","Y">>,
    <<"B","L","O","O","D"," ","I","N","D","I","C","E","S">>,
    <<"D","I","F","F","E","R","E","N","T","I","A","L"," ","C","O","U","N","T">>,
    <<"P","L","A","T","E","L","E","T"," ","C","O","U","N","T">>,
    <<"R","B","C"," ","I","N","D","I","C","E","S">>,
    <<"P","L","A","T","E","L","E","T","S"," ","I","N","D","I","C","E","S">>,
    <<"A","B","S","O","L","U","T","E"," ","L","E","U","C","O","C","Y","T","E"," ","C","O","U","N","T">>,
    <<"C","O","M","P","L","E","T","E"," ","B","L","O","O","D"," ","C","O","U","N","T">> }

\* the lookahead horizon of parse_test_result: indices below start_idx + 6
horizon == 6

\* one pass of the body of the lookahead loop of parse_test_result; s holds
\* the loop's locals (i, result, found_value, found_unit, found_range) and
\* stop, set by the break
lookahead_step(texts, s) ==
  LET current == strip(at(texts, s.i))
  IN IF current = <<>> \/ current \in Separators
     THEN [s EXCEPT !.i = @ + 1]
     ELSE IF ~s.found_value /\ is_number(current) /\ ~is_reference_range(current)
     THEN [s EXCEPT !.result.observed_value = current, !.found_value = TRUE, !.i = @ + 1]
     ELSE IF ~s.found_unit /\ is_unit(current)
     THEN [s EXCEPT !.result.unit = current, !.found_unit = TRUE, !.i = @ + 1]
     ELSE IF ~s.found_range /\ is_reference_range(current)
     THEN [s EXCEPT !.result.reference_range = current, !.found_range = TRUE, !.i = @ + 1]
     ELSE IF /\ s.found_value
             /\ contains(current, <<":">>)
             /\ strip(split1(current, ":")[2]) # <<>>
     THEN [s EXCEPT !.stop = TRUE]
     ELSE [s EXCEPT !.i = @ + 1]

\* the loop condition with the horizon one index further
lookahead_continues_wide(texts, start_idx, s) ==
  /\ ~s.stop
  /\ s.i < start_idx + horizon + 1 /\ s.i < Len(texts)
  /\ (~s.found_value \/ ~s.found_unit \/ ~s.found_range)

\* the condition of the lookahead loop of parse_test_result (and no break)
lookahead_continues(texts, start_idx, s) ==
  /\ ~s.stop
  /\ s.i < start_idx + horizon /\ s.i < Len(texts)
  /\ (~s.found_value \/ ~s.found_unit \/ ~s.found_range)

\* the lookahead loop of parse_test_result
RECURSIVE lookahead(_, _, _)
lookahead(texts, start_idx, s) ==
  IF lookahead_continues(texts, start_idx, s)
  THEN lookahead(texts, start_idx, lookahead_step(texts, s))
  ELSE s

\* parse_test_result returns None before its loop: no token at start_idx, an
\* empty name, a column header or a section header
recognizer_refuses(texts, start_idx) ==
  \/ start_idx >= Len(texts)
  \/ LET test_name0 == strip(at(texts, start_idx))
     IN \/ test_name0 = <<>>
        \/ test_name0 \in COLUMN_HEADERS
        \/ \E h \in section_headers : contains(upper(test_name0), h)

\* the locals of parse_test_result when its loop starts: the name, with the
\* value after its colon if it has one
recognizer_start(texts, start_idx) ==
  LET test_name0 == strip(at(texts, start_idx))
      parts == split1(test_name0, ":")
      colon == Len(parts) > 1
      test_name == IF colon THEN strip(parts[1]) ELSE test_name0
      potential_value == IF colon THEN strip(parts[2]) ELSE <<>>
  IN [i |-> start_idx + 1,
      result |-> [test_name |-> test_name,
                  observed_value |-> potential_value,
                  unit |-> <<>>,
                  reference_range |-> <<>>],
      found_value |-> potential_value # <<>>,
      found_unit |-> FALSE,
      found_range |-> FALSE,
      stop |-> FALSE]

\* the final test of parse_test_result letting every candidate through
recognizer_accepts_always(s) == TRUE

\* the final test of parse_test_result on the locals its loop left
recognizer_accepts(s) ==
  /\ s.result.test_name # <<>>
  /\ (s.result.observed_value # <<>> \/ is_test_name(s.result.test_name))

\* parse_test_result(texts, start_idx): None, or the result dict
parse_test_result(texts, start_idx) ==
  IF recognizer_refuses(texts, start_idx) THEN None
  ELSE LET s == lookahead(texts, start_idx, recognizer_start(texts, start_idx))
       IN IF recognizer_accepts(s) THEN Some(s.result) ELSE None

\* the indices the lookahead loop reads from the locals s on: texts[i] of
\* each pass
RECURSIVE lookahead_reads(_, _, _)
lookahead_reads(texts, start_idx, s) ==
  IF lookahead_continues(texts, start_idx, s)
  THEN {s.i} \cup lookahead_reads(texts, start_idx, lookahead_step(texts, s))
  ELSE {}

\* the indices at which parse_test_result(texts, start_idx) reads texts
parse_test_reads(texts, start_idx) ==
  IF start_idx >= Len(texts) THEN {}
  ELSE IF recognizer_refuses(texts, start_idx) THEN {start_idx}
  ELSE {start_idx}
         \cup lookahead_reads(texts, start_idx, recognizer_start(texts, start_idx))

----------------------------------------------------------------------------
(* Universal parser: the main scan.  The locals of parse_universal_format    *)
(* are the record st: the cursor i, the three section flags, current_category *)
(* (None or a string) and parsed_data.  The record also keeps what the last   *)
(* iteration did: stored, the rules that wrote into parsed_data; accepted,    *)
(* the result of parse_test_result that was filed and the index it was called *)
(* on; reads, the indices at which texts was read; and, over the whole scan,  *)
(* visited, the indices that were the current token of an iteration, and      *)
(* skipped, the indices the lookahead of a filed result passed over.          *)

\* the fresh parsed_data of parse_universal_format (seven keys)
EmptyReport7 ==
  [patient_info |-> <<>>, laboratory_info |-> <<>>, haematology_report |-> <<>>,
   blood_indices |-> <<>>, morphology |-> <<>>, footer_info |-> <<>>,
   other_fields |-> <<>>]

HAEMATOLOGY_MARKERS ==
  { <<"H","A","E","M","A","T","O","L","O","G","Y">>,
    <<"H","E","M","A","T","O","L","O","G","Y">>,
    <<"C","B","C">>,
    <<"C","O","M","P","L","E","T","E"," ","B","L","O","O","D"," ","C","O","U","N","T">> }

\* the header literals skipped after a haematology marker
SKIPPED_HEADERS ==
  { <<"T","E","S","T"," ","D","E","S","C","R","I","P","T","I","O","N">>,
    <<"R","E","S","U","L","T">>,
    <<"R","E","F","."," ","R","A","N","G","E">>,
    <<"U","N","I","T">>,
    <<"T","E","S","T"," ","N","A","M","E">>,
    <<"O","B","S","E","R","V","E","D"," ","V","A","L","U","E">>,
    <<"R","E","F","E","R","E","N","C","E"," ","R","A","N","G","E">>,
    <<"I","N","V","E","S","T","I","G","A","T","I","O","N">>,
    <<"U","N","I","T","S">>,
    <<"B","I","O","L","O","G","I","C","A","L"," ","R","E","F","E","R","E","N","C","E"," ","I","N","T","E","R","V","A","L">> }

INDICES_MARKERS ==
  { <<"B","L","O","O","D"," ","I","N","D","I","C","E","S">>,
    <<"R","B","C"," ","I","N","D","I","C","E","S">>,
    <<"P","L","A","T","E","L","E","T","S"," ","I","N","D","I","C","E","S">> }

DIFFERENTIAL_MARKERS ==
  { <<"D","I","F","F","E","R","E","N","T","I","A","L"," ","C","O","U","N","T">>,
    <<"D","I","F","F","E","R","E","N","T","I","A","L"," ","L","E","U","C","O","C","Y","T","E"," ","C","O","U","N","T">> }

ABSOLUTE_MARKERS ==
  { <<"A","B","S","O","L","U","T","E"," ","L","E","U","C","O","C","Y","T","E"," ","C","O","U","N","T">>,
    <<"A","B","S","O","L","U","T","E"," ","C","O","U","N","T">> }

MORPHOLOGY_MARKERS ==
  { <<"R","B","C"," ","M","O","R","P","H","O","L","O","G","Y">>,
    <<"P","L","A","T","E","L","E","T","S"," ","O","N"," ","S","M","E","A","R">>,
    <<"M","O","R","P","H","O","L","O","G","Y">> }

DifferentialCount == <<"D","i","f","f","e","r","e","n","t","i","a","l"," ","C","o","u","n","t">>

AbsoluteCount == <<"A","b","s","o","l","u","t","e"," ","C","o","u","n","t">>

\* the "Skip headers" loop after a haematology marker: the first index from i
\* on whose token, upper-cased, is not a header literal
RECURSIVE skip_headers(_, _)
skip_headers(texts, i) ==
  IF i < Len(texts) /\ upper(at(texts, i)) \in SKIPPED_HEADERS
  THEN skip_headers(texts, i + 1)
  ELSE i

\* "Parse patient info fields": the for loop over COMMON_PATIENT_FIELDS from
\* its f-th item on
RECURSIVE patient_rule(_, _, _, _)
patient_rule(texts, text, st, f) ==
  IF f > Len(COMMON_PATIENT_FIELDS) THEN st
  ELSE
    LET field_name == COMMON_PATIENT_FIELDS[f].field
        value == extract_value_after_colon(texts, st.i)
    IN IF matches_field(text, COMMON_PATIENT_FIELDS[f].keywords) /\ value.some
       THEN LET info == st.parsed_data.patient_info
                parts == split1(value.value, "/")
                info2 ==
                  IF field_name = "age_gender" /\ Len(parts) > 1
                  THEN put(put(info, "age", strip(parts[1])), "gender", strip(parts[2]))
                  ELSE put(info, field_name, value.value)
            IN [st EXCEPT !.parsed_data.patient_info = info2,
                          !.i = @ + 2,
                          !.stored = @ \cup {"patient"}]
       ELSE patient_rule(texts, text, st, f + 1)

\* the separators that stop the lab-name continuation join
NAME_STOPS == { <<":">>, <<"d","a","t","e">>, <<"n","o">>, <<"i","d">> }

\* "Parse laboratory info": the for loop over COMMON_LAB_FIELDS from its f-th
\* item on; the first field whose keywords match ends the loop
RECURSIVE lab_rule(_, _, _, _)
lab_rule(texts, text, st, f) ==
  IF f > Len(COMMON_LAB_FIELDS) THEN st
  ELSE IF ~matches_field(text, COMMON_LAB_FIELDS[f].keywords)
  THEN lab_rule(texts, text, st, f + 1)
  ELSE
    LET field_name == COMMON_LAB_FIELDS[f].field
        info == st.parsed_data.laboratory_info
    IN IF field_name = "name"
       THEN LET join_next ==
                  /\ st.i + 1 < Len(texts)
                  /\ ~matches_field(at(texts, st.i + 1), PatientFieldKeys)
                  /\ \A x \in NAME_STOPS : ~contains(lower(at(texts, st.i + 1)), x)
                lab_name == IF join_next
                            THEN strip(text \o <<" ">> \o at(texts, st.i + 1))
                            ELSE text
            IN [st EXCEPT !.parsed_data.laboratory_info = put(info, "name", lab_name),
                          !.i = IF join_next THEN @ + 2 ELSE @ + 1,
                          !.stored = @ \cup {"lab"}]
       ELSE LET value == extract_value_after_colon(texts, st.i)
            IN IF value.some
               THEN [st EXCEPT !.parsed_data.laboratory_info = put(info, field_name, value.value),
                               !.i = @ + 2,
                               !.stored = @ \cup {"lab"}]
               ELSE [st EXCEPT !.i = @ + 1]

\* the keyword lists whose match files a test result under blood_indices
INDEX_FIELDS == {"mcv", "mch", "mchc", "hct", "rdw", "mpv", "pct", "pdw"}

\* is_blood_index that looks at no keyword: the section flag alone decides
is_blood_index_never(test_name) == FALSE

\* is_blood_index of the "Parse test results" block
is_blood_index(test_name) ==
  LET test_name_lower == normalize_text(test_name)
  IN \E f \in 1..Len(COMMON_TEST_NAMES) :
       /\ COMMON_TEST_NAMES[f].field \in INDEX_FIELDS
       /\ \E k \in 1..Len(COMMON_TEST_NAMES[f].keywords) :
            contains(test_name_lower, COMMON_TEST_NAMES[f].keywords[k])

\* test_rule moving the cursor past the name and three more tokens, whatever
\* was filled
test_rule_fixed_advance(st, test_result) ==
  LET entry == IF st.current_category.some
               THEN test_result @@ [category |-> st.current_category.value]
               ELSE test_result
  IN IF is_blood_index(test_result.test_name) \/ st.in_blood_indices_section
     THEN [st EXCEPT !.parsed_data.blood_indices = Append(@, entry),
                     !.i = @ + 4,
                     !.stored = @ \cup {"test"}]
     ELSE [st EXCEPT !.parsed_data.haematology_report = Append(@, entry),
                     !.i = @ + 4,
                     !.stored = @ \cup {"test"}]

\* test_rule filing by the name alone, whatever the section flag says
test_rule_ignores_section(st, test_result) ==
  LET entry == IF st.current_category.some
               THEN test_result @@ [category |-> st.current_category.value]
               ELSE test_result
      consumed == 1 + (IF test_result.observed_value # <<>> THEN 1 ELSE 0)
                    + (IF test_result.unit # <<>> THEN 1 ELSE 0)
                    + (IF test_result.reference_range # <<>> THEN 1 ELSE 0)
  IN IF is_blood_index(test_result.test_name)
     THEN [st EXCEPT !.parsed_data.blood_indices = Append(@, entry),
                     !.i = @ + consumed,
                     !.stored = @ \cup {"test"}]
     ELSE [st EXCEPT !.parsed_data.haematology_report = Append(@, entry),
                     !.i = @ + consumed,
                     !.stored = @ \cup {"test"}]

\* test_rule attaching the category only to the entries of haematology_report
test_rule_category_haematology_only(st, test_result) ==
  LET entry == IF st.current_category.some
               THEN test_result @@ [category |-> st.current_category.value]
               ELSE test_result
      consumed == 1 + (IF test_result.observed_value # <<>> THEN 1 ELSE 0)
                    + (IF test_result.unit # <<>> THEN 1 ELSE 0)
                    + (IF test_result.reference_range # <<>> THEN 1 ELSE 0)
  IN IF is_blood_index(test_result.test_name) \/ st.in_blood_indices_section
     THEN [st EXCEPT !.parsed_data.blood_indices = Append(@, test_result),
                     !.i = @ + consumed,
                     !.stored = @ \cup {"test"}]
     ELSE [st EXCEPT !.parsed_data.haematology_report = Append(@, entry),
                     !.i = @ + consumed,
                     !.stored = @ \cup {"test"}]

\* "Parse test results", the branch taken when parse_test_result returned
\* test_result: file it, then advance the cursor
test_rule(st, test_result) ==
  LET entry == IF st.current_category.some
               THEN test_result @@ [category |-> st.current_category.value]
               ELSE test_result
      consumed == 1 + (IF test_result.observed_value # <<>> THEN 1 ELSE 0)
                    + (IF test_result.unit # <<>> THEN 1 ELSE 0)
                    + (IF test_result.reference_range # <<>> THEN 1 ELSE 0)
  IN IF is_blood_index(test_result.test_name) \/ st.in_blood_indices_section
     THEN [st EXCEPT !.parsed_data.blood_indices = Append(@, entry),
                     !.i = @ + consumed,
                     !.stored = @ \cup {"test"}]
     ELSE [st EXCEPT !.parsed_data.haematology_report = Append(@, entry),
                     !.i = @ + consumed,
                     !.stored = @ \cup {"test"}]

\* "Parse morphology": the for loop over COMMON_MORPHOLOGY_FIELDS from its
\* f-th item on (entered only when in_morphology_section)
RECURSIVE morphology_rule(_, _, _, _)
morphology_rule(texts, text, st, f) ==
  IF f > Len(COMMON_MORPHOLOGY_FIELDS) THEN st
  ELSE
    LET value == extract_value_after_colon(texts, st.i)
    IN IF matches_field(text, COMMON_MORPHOLOGY_FIELDS[f].keywords) /\ value.some
       THEN LET merge ==
                  /\ st.i + 2 < Len(texts)
                  /\ ~matches_field(at(texts, st.i + 2), PatientFieldKeys)
                  /\ ~is_test_name(at(texts, st.i + 2))
                merged == IF merge
                          THEN strip(value.value \o <<" ">> \o at(texts, st.i + 2))
                          ELSE value.value
            IN [st EXCEPT !.parsed_data.morphology =
                              put(@, COMMON_MORPHOLOGY_FIELDS[f].field, merged),
                          !.i = IF merge THEN @ + 3 ELSE @ + 2,
                          !.stored = @ \cup {"morphology"}]
       ELSE morphology_rule(texts, text, st, f + 1)

\* "Parse footer info": the for loop over COMMON_FOOTER_FIELDS from its f-th
\* item on; the first field whose keywords match ends the loop
RECURSIVE footer_rule(_, _, _, _)
footer_rule(texts, text, st, f) ==
  IF f > Len(COMMON_FOOTER_FIELDS) THEN st
  ELSE IF ~matches_field(text, COMMON_FOOTER_FIELDS[f].keywords)
  THEN footer_rule(texts, text, st, f + 1)
  ELSE
    LET value == extract_value_after_colon(texts, st.i)
        field_name == COMMON_FOOTER_FIELDS[f].field
    IN IF value.some
       THEN [st EXCEPT !.parsed_data.footer_info = put(@, field_name, value.value),
                       !.i = @ + 2,
                       !.stored = @ \cup {"footer"}]
       ELSE [st EXCEPT !.parsed_data.footer_info = put(@, field_name, text),
                       !.i = @ + 1,
                       !.stored = @ \cup {"footer"}]

\* the shortest raw key other_fields keeps is longer than this
min_key_len == 2

\* other_rule replacing the value of a key that is already there
other_rule_overwrites(texts, text, st) ==
  IF st.i < Len(texts) /\ contains(text, <<":">>) /\ st.i + 1 < Len(texts)
  THEN LET key == strip(split1(text, ":")[1])
           value == extract_value_after_colon(texts, st.i)
           other == st.parsed_data.other_fields
       IN IF value.some /\ key # <<>> /\ Len(key) > min_key_len
          THEN [st EXCEPT !.parsed_data.other_fields =
                   put(other, key, [list |-> FALSE, items |-> <<value.value>>]),
                          !.stored = @ \cup {"other"}]
          ELSE st
  ELSE st

\* "Store unknown fields in other_fields".  A value of other_fields is
\* [list |-> FALSE, items |-> <<v>>] for a single string v and
\* [list |-> TRUE, items |-> <<v1, v2, ...>>] once the key recurred.
other_rule(texts, text, st) ==
  IF st.i < Len(texts) /\ contains(text, <<":">>) /\ st.i + 1 < Len(texts)
  THEN LET key == strip(split1(text, ":")[1])
           value == extract_value_after_colon(texts, st.i)
           other == st.parsed_data.other_fields
       IN IF value.some /\ key # <<>> /\ Len(key) > min_key_len
          THEN [st EXCEPT !.parsed_data.other_fields =
                   IF ~has(other, key)
                   THEN put(other, key, [list |-> FALSE, items |-> <<value.value>>])
                   ELSE put(other, key,
                            [list |-> TRUE, items |-> Append(get(other, key).items, value.value)]),
                          !.stored = @ \cup {"other"}]
          ELSE st
  ELSE st

\* whether one of the fields of a dictionary matches text
some_field_matches(text, fields) ==
  \E f \in 1..Len(fields) : matches_field(text, fields[f].keywords)

\* the first field of a dictionary that matches text
first_match(text, fields) ==
  CHOOSE f \in 1..Len(fields) :
    /\ matches_field(text, fields[f].keywords)
    /\ \A g \in 1..(f - 1) : ~matches_field(text, fields[g].keywords)

\* the indices at which one iteration of the while loop reads texts, each
\* under the test the source puts before the access
iteration_reads(texts, st) ==
  LET text == at(texts, st.i)
      text_upper == upper(text)
      marker(M) == \E x \in M : contains(text_upper, x)
  IN IF text = <<>> \/ text \in Separators THEN {st.i}
     ELSE IF marker(HAEMATOLOGY_MARKERS)
     THEN {st.i} \cup {j \in (st.i + 1)..skip_headers(texts, st.i + 1) : j < Len(texts)}
     ELSE IF marker(INDICES_MARKERS) \/ marker(DIFFERENTIAL_MARKERS)
             \/ marker(ABSOLUTE_MARKERS) \/ marker(MORPHOLOGY_MARKERS)
     THEN {st.i}
     ELSE
       LET s1 == patient_rule(texts, text, st, 1)
           s2 == lab_rule(texts, text, s1, 1)
           test_result == parse_test_result(texts, s2.i)
           s3 == IF s2.in_morphology_section
                 THEN morphology_rule(texts, text, s2, 1)
                 ELSE s2
           s4 == footer_rule(texts, text, s3, 1)
           patient_reads ==
             IF some_field_matches(text, COMMON_PATIENT_FIELDS)
             THEN extract_value_reads(texts, st.i)
             ELSE {}
           lab_reads ==
             IF ~some_field_matches(text, COMMON_LAB_FIELDS) THEN {}
             ELSE IF COMMON_LAB_FIELDS[first_match(text, COMMON_LAB_FIELDS)].field = "name"
             THEN (IF s1.i + 1 < Len(texts) THEN {s1.i + 1} ELSE {})
             ELSE extract_value_reads(texts, s1.i)
           morphology_reads ==
             IF s2.in_morphology_section /\ some_field_matches(text, COMMON_MORPHOLOGY_FIELDS)
             THEN extract_value_reads(texts, s2.i)
                    \cup (IF extract_value_after_colon(texts, s2.i).some /\ s2.i + 2 < Len(texts)
                          THEN {s2.i + 2} ELSE {})
             ELSE {}
           footer_reads ==
             IF some_field_matches(text, COMMON_FOOTER_FIELDS)
             THEN extract_value_reads(texts, s3.i)
             ELSE {}
           other_reads ==
             IF s4.i < Len(texts) /\ contains(text, <<":">>) /\ s4.i + 1 < Len(texts)
             THEN extract_value_reads(texts, s4.i)
             ELSE {}
       IN {st.i} \cup patient_reads \cup lab_reads \cup parse_test_reads(texts, s2.i)
            \cup (IF test_result.some THEN {}
                  ELSE morphology_reads \cup footer_reads \cup other_reads)

\* the indices the lookahead of parse_test_result passed over without filling
\* a field, from the locals s on
RECURSIVE lookahead_skipped(_, _, _)
lookahead_skipped(texts, start_idx, s) ==
  IF lookahead_continues(texts, start_idx, s)
  THEN LET s2 == lookahead_step(texts, s)
       IN (IF s2.result = s.result /\ ~s2.stop THEN {s.i} ELSE {})
            \cup lookahead_skipped(texts, start_idx, s2)
  ELSE {}

\* the loop body without the closing i += 1
rule_chain_without_increment(texts, st) ==
  LET text == at(texts, st.i)
      text_upper == upper(text)
  IN IF text = <<>> \/ text \in Separators
     THEN [st EXCEPT !.i = @ + 1]
     ELSE IF \E x \in HAEMATOLOGY_MARKERS : contains(text_upper, x)
     THEN [st EXCEPT !.in_haematology_section = TRUE,
                     !.in_blood_indices_section = FALSE,
                     !.i = skip_headers(texts, st.i + 1)]
     ELSE IF \E x \in INDICES_MARKERS : contains(text_upper, x)
     THEN [st EXCEPT !.in_blood_indices_section = TRUE,
                     !.in_haematology_section = FALSE,
                     !.i = @ + 1]
     ELSE IF \E x \in DIFFERENTIAL_MARKERS : contains(text_upper, x)
     THEN [st EXCEPT !.current_category = Some(DifferentialCount), !.i = @ + 1]
     ELSE IF \E x \in ABSOLUTE_MARKERS : contains(text_upper, x)
     THEN [st EXCEPT !.current_category = Some(AbsoluteCount), !.i = @ + 1]
     ELSE IF \E x \in MORPHOLOGY_MARKERS : contains(text_upper, x)
     THEN [st EXCEPT !.in_morphology_section = TRUE, !.i = @ + 1]
     ELSE
       LET s1 == patient_rule(texts, text, st, 1)
           s2 == lab_rule(texts, text, s1, 1)
           test_result == parse_test_result(texts, s2.i)
       IN IF test_result.some
          THEN [test_rule(s2, test_result.value) EXCEPT
                  !.accepted = Some([start_idx |-> s2.i, result |-> test_result.value]),
                  !.skipped = @ \cup lookahead_skipped(texts, s2.i,
                                                      recognizer_start(texts, s2.i))]
          ELSE
            LET s3 == IF s2.in_morphology_section
                      THEN morphology_rule(texts, text, s2, 1)
                      ELSE s2
                s4 == footer_rule(texts, text, s3, 1)
                s5 == other_rule(texts, text, s4)
            IN s5

\* the body of the while loop of parse_universal_format on the locals st:
\* the rules, in the order of the source
rule_chain(texts, st) ==
  LET text == at(texts, st.i)
      text_upper == upper(text)
  IN IF text = <<>> \/ text \in Separators
     THEN [st EXCEPT !.i = @ + 1]
     ELSE IF \E x \in HAEMATOLOGY_MARKERS : contains(text_upper, x)
     THEN [st EXCEPT !.in_haematology_section = TRUE,
                     !.in_blood_indices_section = FALSE,
                     !.i = skip_headers(texts, st.i + 1)]
     ELSE IF \E x \in INDICES_MARKERS : contains(text_upper, x)
     THEN [st EXCEPT !.in_blood_indices_section = TRUE,
                     !.in_haematology_section = FALSE,
                     !.i = @ + 1]
     ELSE IF \E x \in DIFFERENTIAL_MARKERS : contains(text_upper, x)
     THEN [st EXCEPT !.current_category = Some(DifferentialCount), !.i = @ + 1]
     ELSE IF \E x \in ABSOLUTE_MARKERS : contains(text_upper, x)
     THEN [st EXCEPT !.current_category = Some(AbsoluteCount), !.i = @ + 1]
     ELSE IF \E x \in MORPHOLOGY_MARKERS : contains(text_upper, x)
     THEN [st EXCEPT !.in_morphology_section = TRUE, !.i = @ + 1]
     ELSE
       LET s1 == patient_rule(texts, text, st, 1)
           s2 == lab_rule(texts, text, s1, 1)
           test_result == parse_test_result(texts, s2.i)
       IN IF test_result.some
          THEN [test_rule(s2, test_result.value) EXCEPT
                  !.accepted = Some([start_idx |-> s2.i, result |-> test_result.value]),
                  !.skipped = @ \cup lookahead_skipped(texts, s2.i,
                                                      recognizer_start(texts, s2.i))]
          ELSE
            LET s3 == IF s2.in_morphology_section
                      THEN morphology_rule(texts, text, s2, 1)
                      ELSE s2
                s4 == footer_rule(texts, text, s3, 1)
                s5 == other_rule(texts, text, s4)
            IN [s5 EXCEPT !.i = @ + 1]

\* one iteration of the while loop of parse_universal_format, with the record
\* of what it did
scan_iteration(texts, st0) ==
  [rule_chain(texts, [st0 EXCEPT !.stored = {}, !.accepted = None,
                                 !.visited = @ \cup {st0.i}])
     EXCEPT !.reads = iteration_reads(texts, st0)]

\* the locals of parse_universal_format before the loop
scan_start ==
  [i |-> 0,
   in_haematology_section |-> FALSE,
   in_blood_indices_section |-> FALSE,
   in_morphology_section |-> FALSE,
   current_category |-> None,
   parsed_data |-> EmptyReport7,
   stored |-> {},
   accepted |-> None,
   reads |-> {},
   visited |-> {},
   skipped |-> {}]

\* "Convert to list of strings": str(t).strip() if t else ""
clean_universal(texts) == [k \in 1..Len(texts) |-> strip(texts[k])]

\* the whole loop, from the locals st on
RECURSIVE scan(_, _)
scan(texts, st) ==
  IF st.i < Len(texts) THEN scan(texts, scan_iteration(texts, st)) ELSE st

\* parse_universal_format(texts) for a list texts
parse_universal_format(texts) ==
  IF Len(texts) = 0 THEN EmptyReport7
  ELSE scan(clean_universal(texts), scan_start).parsed_data

----------------------------------------------------------------------------
(* The fixed-layout readers.  The same three functions stand in             *)
(* parsers/*_parser.py and, line for line, in ocr_processor.py.  The locals  *)
(* of a reader are the record st: the cursor i and parsed_data.              *)

\* the fresh parsed_data of a fixed-layout reader (six keys, no other_fields)
EmptyReport6 ==
  [patient_info |-> <<>>, laboratory_info |-> <<>>, haematology_report |-> <<>>,
   blood_indices |-> <<>>, morphology |-> <<>>, footer_info |-> <<>>]

\* texts[i] if i < len(texts) else ""
at_or_empty(texts, i) == IF i < Len(texts) THEN at(texts, i) ELSE <<>>

\* s.replace(":", "").strip()
uncolon(s) == strip(replace(s, <<":">>, <<>>))

\* test_entry that leaves out the unit key
test_entry_without_unit(test_name, observed_value, unit, reference_range) ==
  [test_name |-> test_name, observed_value |-> observed_value,
   reference_range |-> reference_range]

\* a test-result dict
test_entry(test_name, observed_value, unit, reference_range) ==
  [test_name |-> test_name, observed_value |-> observed_value,
   unit |-> unit, reference_range |-> reference_range]

(* PARTH PATHOLOGY LABORATORY *)

\* the date lookup of "Collection Date" / "Reporting Date": the first j in
\* range(i + 1, min(i + 3, len(texts))) whose token starts with ":" or holds a
\* digit and is non-empty once its colons are removed; 0 when there is none
parth_date_index(texts, i) ==
  LET stop == IF i + 3 < Len(texts) THEN i + 3 ELSE Len(texts)
      hits == {j \in (i + 1)..(stop - 1) :
                 /\ startswith(at(texts, j), <<":">>) \/ any_digit(at(texts, j))
                 /\ uncolon(at(texts, j)) # <<>>}
  IN IF hits = {} THEN 0 ELSE CHOOSE j \in hits : \A m \in hits : j <= m

parth_date(texts, st, key) ==
  LET j == parth_date_index(texts, st.i)
  IN IF j = 0 THEN [st EXCEPT !.i = @ + 1]
     ELSE [st EXCEPT !.parsed_data.patient_info = put(@, key, uncolon(at(texts, j))),
                     !.i = j + 1]

PARTH_COLUMNS == { <<"T","e","s","t"," ","N","a","m","e">>, <<"O","b","s","e","r","v","e","d"," ","V","a","l","u","e">>, <<"U","n","i","t">>, <<"R","e","f","e","r","e","n","c","e"," ","R","a","n","g","e">> }

RECURSIVE parth_skip_columns(_, _)
parth_skip_columns(texts, i) ==
  IF i < Len(texts) /\ at(texts, i) \in PARTH_COLUMNS
  THEN parth_skip_columns(texts, i + 1)
  ELSE i

PARTH_END == <<"*","*"," ","E","n","d"," ","o","f"," ","R","e","p","o","r","t">>

\* the break test of the inner loop of the "HAEMATOLOGY REPORT" branch
parth_haematology_breaks(texts, st) ==
  LET test_text == at(texts, st.i)
  IN \E header \in {<<"D","I","F","F","E","R","E","N","T","I","A","L"," ","C","O","U","N","T">>, <<"P","L","A","T","E","L","E","T"," ","C","O","U","N","T">>, <<"B","L","O","O","D"," ","I","N","D","I","C","E","S">>, PARTH_END} :
       contains(test_text, header)

\* one pass of that loop's body past the break test
parth_haematology_pass(texts, st) ==
  LET i == st.i
      test_text == at(texts, i)
  IN IF startswith(test_text, <<":">>) \/ test_text = <<>> \/ test_text \in PARTH_COLUMNS
     THEN [st EXCEPT !.i = @ + 1]
     ELSE IF i + 1 < Len(texts) /\ startswith(at(texts, i + 1), <<":">>)
     THEN LET no_unit ==
                /\ i + 2 < Len(texts)
                /\ ~\E k \in 1..Len(at(texts, i + 2)) :
                      at(texts, i + 2)[k] \in Digits \cup {"-"}
              unit == IF no_unit THEN <<>> ELSE at_or_empty(texts, i + 2)
              ref_range == IF no_unit THEN at(texts, i + 2) ELSE at_or_empty(texts, i + 3)
          IN [st EXCEPT !.parsed_data.haematology_report =
                           Append(@, test_entry(test_text, uncolon(at(texts, i + 1)), unit, ref_range)),
                        !.i = @ + 4]
     ELSE [st EXCEPT !.i = @ + 1]

\* the inner loop of the "HAEMATOLOGY REPORT" branch
RECURSIVE parth_haematology(_, _)
parth_haematology(texts, st) ==
  IF st.i >= Len(texts) \/ parth_haematology_breaks(texts, st) THEN st
  ELSE parth_haematology(texts, parth_haematology_pass(texts, st))

\* the break test of the inner loop of the "DIFFERENTIAL COUNT" branch
parth_differential_breaks(texts, st) ==
  LET test_text0 == at(texts, st.i)
  IN \E header \in {<<"P","L","A","T","E","L","E","T"," ","C","O","U","N","T">>, <<"B","L","O","O","D"," ","I","N","D","I","C","E","S">>, PARTH_END} :
       contains(test_text0, header)

\* one pass of that loop's body past the break test
parth_differential_pass(texts, st) ==
  LET i == st.i
      test_text0 == at(texts, i)
      test_text == IF contains(test_text0, <<"?","o","l","y","m","o","r","p","h","s">>)
                   \/ contains(lower(test_text0), <<"o","l","y","m","o","r","p","h","s">>)
                   THEN <<"P","o","l","y","m","o","r","p","h","s">> ELSE test_text0
  IN IF startswith(test_text0, <<":">>) \/ test_text0 = <<>>
     THEN [st EXCEPT !.i = @ + 1]
     ELSE IF i + 1 < Len(texts) /\ startswith(at(texts, i + 1), <<":">>)
     THEN [st EXCEPT !.parsed_data.haematology_report =
                        Append(@, test_entry(test_text, uncolon(at(texts, i + 1)),
                                             at_or_empty(texts, i + 2), at_or_empty(texts, i + 3))
                                  @@ [category |-> DifferentialCount]),
                     !.i = @ + 4]
     ELSE [st EXCEPT !.i = @ + 1]

\* the inner loop of the "DIFFERENTIAL COUNT" branch
RECURSIVE parth_differential(_, _)
parth_differential(texts, st) ==
  IF st.i >= Len(texts) \/ parth_differential_breaks(texts, st) THEN st
  ELSE parth_differential(texts, parth_differential_pass(texts, st))

PARTH_INDEX_NAMES ==
  { <<"M",".","C",".","H",".","C",".">>, <<"H",".","C",".","T",".">>, <<"M",".","C",".","V",".">>, <<"M",".","C",".","H",".">>, <<"R",".","D",".","W",".">>, <<"M",".","P",".","V",".">>,
    <<"P","l","a","t","e","l","e","t","c","r","i","t"," ","(","P","C","T",")">> }

\* the break test of the inner loop of the "BLOOD INDICES" branch
parth_indices_breaks(texts, st) ==
  LET test_text == at(texts, st.i)
  IN \E header \in {<<"R","B","C"," ","M","o","r","p","h","o","l","o","g","y">>, <<"P","l","a","t","e","l","e","t","s"," ","o","n"," ","S","m","e","a","r">>, PARTH_END} :
       contains(test_text, header)

\* one pass of that loop's body past the break test
parth_indices_pass(texts, st) ==
  LET i == st.i
      test_text == at(texts, i)
      entry(value_text) ==
        test_entry(test_text, value_text, at_or_empty(texts, i + 2), at_or_empty(texts, i + 3))
  IN IF startswith(test_text, <<":">>) \/ test_text = <<>>
     THEN [st EXCEPT !.i = @ + 1]
     ELSE IF test_text \in PARTH_INDEX_NAMES
     THEN IF i + 1 < Len(texts)
          THEN LET next_text == at(texts, i + 1)
                   value_text == IF startswith(next_text, <<":">>)
                                 THEN uncolon(next_text) ELSE strip(next_text)
               IN [st EXCEPT !.parsed_data.blood_indices = Append(@, entry(value_text)),
                             !.i = @ + 4]
          ELSE [st EXCEPT !.i = @ + 1]
     ELSE IF i + 1 < Len(texts) /\ startswith(at(texts, i + 1), <<":">>)
     THEN [st EXCEPT !.parsed_data.blood_indices = Append(@, entry(uncolon(at(texts, i + 1)))),
                     !.i = @ + 4]
     ELSE [st EXCEPT !.i = @ + 1]

\* the inner loop of the "BLOOD INDICES" branch
RECURSIVE parth_indices(_, _)
parth_indices(texts, st) ==
  IF st.i >= Len(texts) \/ parth_indices_breaks(texts, st) THEN st
  ELSE parth_indices(texts, parth_indices_pass(texts, st))

\* one iteration of the outer while loop of parse_parth_format
parth_iteration(texts, st) ==
  LET i == st.i
      text == at(texts, i)
  IN IF contains(text, <<"P","a","t","i","e","n","t"," ","I","D">>) /\ i + 1 < Len(texts)
     THEN IF startswith(at(texts, i + 1), <<":">>)
          THEN [st EXCEPT !.parsed_data.patient_info = put(@, "patient_id", uncolon(at(texts, i + 1))),
                          !.i = @ + 2]
          ELSE [st EXCEPT !.i = @ + 2]
     ELSE IF contains(text, <<"C","o","l","l","e","c","t","i","o","n"," ","D","a","t","e">>)
     THEN parth_date(texts, st, "collection_date")
     ELSE IF contains(text, <<"R","e","p","o","r","t","i","n","g"," ","D","a","t","e">>)
     THEN parth_date(texts, st, "reporting_date")
     ELSE IF contains(text, <<"P","A","T","H","O","L","O","G","Y"," ","L","A","B","O","R","A","T","O","R","Y">>)
     THEN [st EXCEPT !.parsed_data.laboratory_info = put(@, "name", <<"P","A","R","T","H"," ","P","A","T","H","O","L","O","G","Y"," ","L","A","B","O","R","A","T","O","R","Y">>),
                     !.i = @ + 1]
     ELSE IF contains(text, <<"D","r",".">>) /\ contains(text, <<"H","o","s","p","i","t","a","l">>)
     THEN [st EXCEPT !.parsed_data.patient_info = put(@, "referring_doctor", text),
                     !.i = @ + 1]
     ELSE IF contains(text, <<"H","A","E","M","A","T","O","L","O","G","Y"," ","R","E","P","O","R","T">>)
     THEN parth_haematology(texts, [st EXCEPT !.i = parth_skip_columns(texts, i + 1)])
     ELSE IF contains(text, <<"D","I","F","F","E","R","E","N","T","I","A","L"," ","C","O","U","N","T">>)
     THEN parth_differential(texts, [st EXCEPT !.i = @ + 1])
     ELSE IF contains(text, <<"P","L","A","T","E","L","E","T"," ","C","O","U","N","T">>)
     THEN IF i + 1 < Len(texts) /\ startswith(at(texts, i + 1), <<":">>)
          THEN [st EXCEPT !.parsed_data.haematology_report =
                             Append(@, test_entry(<<"P","L","A","T","E","L","E","T"," ","C","O","U","N","T">>, uncolon(at(texts, i + 1)),
                                                  at_or_empty(texts, i + 2), at_or_empty(texts, i + 3))),
                          !.i = @ + 4]
          ELSE [st EXCEPT !.i = @ + 2]
     ELSE IF contains(text, <<"B","L","O","O","D"," ","I","N","D","I","C","E","S">>)
     THEN parth_indices(texts, [st EXCEPT !.i = @ + 1])
     ELSE IF contains(text, <<"R","B","C"," ","M","o","r","p","h","o","l","o","g","y">>)
     THEN IF i + 1 < Len(texts) /\ startswith(at(texts, i + 1), <<":">>)
          THEN [st EXCEPT !.parsed_data.morphology =
                             put(@, "rbc_morphology",
                                 strip(uncolon(at(texts, i + 1)) \o <<" ">> \o at_or_empty(texts, i + 2))),
                          !.i = @ + 3]
          ELSE [st EXCEPT !.i = @ + 1]
     ELSE IF contains(text, <<"P","l","a","t","e","l","e","t","s"," ","o","n"," ","S","m","e","a","r">>)
     THEN IF i + 1 < Len(texts)
          THEN [st EXCEPT !.parsed_data.morphology = put(@, "platelets_on_smear", at(texts, i + 1)),
                          !.i = @ + 2]
          ELSE [st EXCEPT !.i = @ + 1]
     ELSE IF contains(text, <<"D","r",".">>) /\ contains(text, <<"R","a","j","p","u","t">>)
     THEN LET f1 == put(st.parsed_data.footer_info, "doctor_name", text)
              f2 == IF i + 1 < Len(texts) THEN put(f1, "qualification", at(texts, i + 1)) ELSE f1
              f3 == IF i + 2 < Len(texts) /\ contains(at(texts, i + 2), <<"R","e","g","i","s","t","r","a","t","i","o","n">>)
                    THEN put(f2, "registration", at(texts, i + 2)) ELSE f2
          IN [st EXCEPT !.parsed_data.footer_info = f3, !.i = @ + 3]
     ELSE IF contains(text, <<"L","a","b"," ","T","e","c","h","n","i","c","i","a","n">>)
     THEN [st EXCEPT !.parsed_data.footer_info = put(@, "lab_technician", text), !.i = @ + 1]
     ELSE [st EXCEPT !.i = @ + 1]

\* the locals of a reader before its loop
reader_start == [i |-> 0, parsed_data |-> EmptyReport6]

RECURSIVE parth_loop(_, _)
parth_loop(texts, st) ==
  IF st.i < Len(texts) THEN parth_loop(texts, parth_iteration(texts, st)) ELSE st

\* parse_parth_format(texts)
parse_parth_format(texts) == parth_loop(texts, reader_start).parsed_data

(* Grant Medical Foundation *)

\* the "Parse X" blocks of parse_grant_format that read the next token:
\* the literal looked for, the patient_info key, whether colons are removed
GRANT_FIELDS ==
  << [literal |-> <<"R","e","c","e","i","v","e","d"," ","D","a","t","e">>, key |-> "received_date", uncolon |-> FALSE],
     [literal |-> <<"R","e","p","o","r","t"," ","D","a","t","e">>, key |-> "report_date", uncolon |-> FALSE],
     [literal |-> <<"L","a","b"," ","N","o","/","R","e","s","u","l","t"," ","N","o">>, key |-> "lab_no", uncolon |-> FALSE],
     [literal |-> <<"R","e","f","e","r","r","e","d"," ","B","y"," ","D","r",".">>, key |-> "referring_doctor", uncolon |-> TRUE],
     [literal |-> <<"S","p","e","c","i","m","e","n">>, key |-> "specimen", uncolon |-> TRUE],
     [literal |-> <<"W","a","r","d"," ","/"," ","B","e","d">>, key |-> "ward_bed", uncolon |-> TRUE] >>

GRANT_COLUMNS ==
  { <<"I","n","v","e","s","t","i","g","a","t","i","o","n">>, <<"R","e","s","u","l","t">>, <<"U","n","i","t","s">>, <<"B","i","o","l","o","g","i","c","a","l"," ","R","e","f","e","r","e","n","c","e"," ","I","n","t","e","r","v","a","l">>,
    <<"H","a","e","m","o","g","r","a","m"," ","R","e","p","o","r","t">> }

RECURSIVE grant_skip_columns(_, _)
grant_skip_columns(texts, i) ==
  IF i < Len(texts) /\ at(texts, i) \in GRANT_COLUMNS
  THEN grant_skip_columns(texts, i + 1)
  ELSE i

GRANT_INDEX_WORDS ==
  { <<"m","c","v">>, <<"m","c","h">>, <<"m","c","h","c">>, <<"r","d","w">>, <<"h","c","t">>, <<"h","e","m","a","t","o","c","r","i","t">> }

\* the break test of the inner loop of the HAEMATOLOGY branch of
\* parse_grant_format
grant_haematology_breaks(texts, st) ==
  LET test_text == at(texts, st.i)
  IN contains(test_text, <<"P","r","i","n","t","e","d"," ","B","y">>) \/ contains(test_text, <<"P","r","i","n","t","e","d"," ","O","n">>)

\* the "Differential Count" heading, which sets in_differential_count
grant_differential_heading(texts, st) ==
  LET test_text == at(texts, st.i)
  IN contains(test_text, <<"D","i","f","f","e","r","e","n","t","i","a","l"," ","C","o","u","n","t">>)

\* one pass of that loop's body past the break test
grant_haematology_pass(texts, st, in_differential_count) ==
  LET i == st.i
      test_text == at(texts, i)
  IN IF grant_differential_heading(texts, st)
     THEN [st EXCEPT !.i = @ + 1]
     ELSE IF contains(test_text, <<"M","e","t","h","o","d"," ",":">>) \/ contains(test_text, <<"M","e","t","h","O","d"," ",":">>)
     THEN [st EXCEPT !.i = @ + 1]
     ELSE IF test_text = <<>> \/ startswith(test_text, <<":">>)
     THEN [st EXCEPT !.i = @ + 1]
     ELSE IF i + 1 < Len(texts) /\ startswith(at(texts, i + 1), <<":">>)
     THEN LET entry == test_entry(test_text, uncolon(at(texts, i + 1)),
                                  strip(at_or_empty(texts, i + 2)),
                                  strip(at_or_empty(texts, i + 3)))
          IN IF \E x \in GRANT_INDEX_WORDS : contains(lower(test_text), x)
             THEN [st EXCEPT !.parsed_data.blood_indices = Append(@, entry), !.i = @ + 4]
             ELSE [st EXCEPT !.parsed_data.haematology_report =
                                Append(@, IF in_differential_count
                                          THEN entry @@ [category |-> DifferentialCount]
                                          ELSE entry),
                             !.i = @ + 4]
     ELSE [st EXCEPT !.i = @ + 1]

\* the inner loop of the HAEMATOLOGY branch of parse_grant_format
RECURSIVE grant_haematology(_, _, _)
grant_haematology(texts, st, in_differential_count) ==
  IF st.i >= Len(texts) \/ grant_haematology_breaks(texts, st) THEN st
  ELSE grant_haematology(texts, grant_haematology_pass(texts, st, in_differential_count),
                         in_differential_count \/ grant_differential_heading(texts, st))

\* the blocks of GRANT_FIELDS from the f-th on, then the rest of the chain
RECURSIVE grant_fields(_, _, _)
grant_fields(texts, st, f) ==
  LET i == st.i
      text == at(texts, i)
  IN IF f <= Len(GRANT_FIELDS)
     THEN IF contains(text, GRANT_FIELDS[f].literal) /\ i + 1 < Len(texts)
          THEN LET value == IF GRANT_FIELDS[f].uncolon
                            THEN uncolon(at(texts, i + 1)) ELSE strip(at(texts, i + 1))
               IN IF value # <<>>
                  THEN [st EXCEPT !.parsed_data.patient_info = put(@, GRANT_FIELDS[f].key, value),
                                  !.i = @ + 2]
                  ELSE [st EXCEPT !.i = @ + 2]
          ELSE grant_fields(texts, st, f + 1)
     ELSE IF contains(text, <<"D","E","P","A","R","T","M","E","N","T"," ","O","F"," ","L","A","B","O","R","A","T","O","R","Y"," ","M","E","D","I","C","I","N","E","-","H","A","E","M","A","T","O","L","O","G","Y">>)
             \/ contains(text, <<"H","A","E","M","A","T","O","L","O","G","Y">>)
     THEN grant_haematology(texts, [st EXCEPT !.i = grant_skip_columns(texts, i + 1)], FALSE)
     ELSE IF contains(text, <<"P","r","i","n","t","e","d"," ","B","y">>)
     THEN LET f1 == IF i + 1 < Len(texts)
                    THEN put(st.parsed_data.footer_info, "printed_by", uncolon(at(texts, i + 1)))
                    ELSE st.parsed_data.footer_info
              f2 == IF i + 3 < Len(texts) /\ contains(at(texts, i + 2), <<"P","r","i","n","t","e","d"," ","O","n">>)
                    THEN put(f1, "printed_on", strip(at(texts, i + 3)))
                    ELSE f1
          IN [st EXCEPT !.parsed_data.footer_info = f2, !.i = @ + 4]
     ELSE [st EXCEPT !.i = @ + 1]

\* one iteration of the outer while loop of parse_grant_format
grant_iteration(texts, st) ==
  LET text == at(texts, st.i)
  IN IF contains(text, <<"G","r","a","n","t"," ","M","e","d","i","c","a","l"," ","F","o","u","n","d","a","t","i","o","n">>) \/ contains(text, <<"G","r","a","n","t"," ","M","e","d","i","c","a","l">>)
     THEN [st EXCEPT !.parsed_data.laboratory_info = put(@, "name", <<"G","r","a","n","t"," ","M","e","d","i","c","a","l"," ","F","o","u","n","d","a","t","i","o","n">>),
                     !.i = @ + 1]
     ELSE grant_fields(texts, st, 1)

RECURSIVE grant_loop(_, _)
grant_loop(texts, st) ==
  IF st.i < Len(texts) THEN grant_loop(texts, grant_iteration(texts, st)) ELSE st

\* parse_grant_format(texts)
parse_grant_format(texts) == grant_loop(texts, reader_start).parsed_data

(* ARFA DIAGNOSTIC CENTRE *)

\* the "Parse X" blocks of parse_arfa_format that store the next token: the
\* literal looked for, the section of parsed_data and the key
ARFA_FIELDS ==
  << [literal |-> <<"U","s","e","r",":">>, section |-> "patient_info", key |-> "user"],
     [literal |-> <<"P","H","C","R"," ","#",":">>, section |-> "laboratory_info", key |-> "phcr_number"],
     [literal |-> <<"B","o","o","k","i","n","g"," ","N","o",".",":">>, section |-> "patient_info", key |-> "booking_no"],
     [literal |-> <<"P","a","t","i","e","n","t"," ","N","o",".",":">>, section |-> "patient_info", key |-> "patient_no"],
     [literal |-> <<"P","a","t","i","e","n","t"," ","N","a","m","e",":">>, section |-> "patient_info", key |-> "patient_name"],
     [literal |-> <<"S","a","m","p","l","e"," ","C","o","l","l","e","c","t","e","d",":">>, section |-> "patient_info", key |-> "sample_collected"],
     [literal |-> <<"A","g","e","/","S","e","x",":">>, section |-> "patient_info", key |-> "age_sex"],
     [literal |-> <<"T","e","s","t"," ","B","o","o","k","e","d",":">>, section |-> "patient_info", key |-> "test_booked"],
     [literal |-> <<"R","e","s","u","l","t","s"," ","S","a","v","e","d",":">>, section |-> "patient_info", key |-> "results_saved"],
     [literal |-> <<"M","o","b","i","l","e",":">>, section |-> "patient_info", key |-> "mobile"],
     [literal |-> <<"C","o","l","l","e","c","t","i","o","n"," ","P","o","i","n","t",":">>, section |-> "patient_info", key |-> "collection_point"],
     [literal |-> <<"C","o","n","s","u","l","t","a","n","t",":">>, section |-> "patient_info", key |-> "consultant"] >>

ARFA_COLUMNS ==
  { <<"T","e","s","t">>, <<"N","o","r","m","a","l"," ","R","a","n","g","e">>, <<"U","n","i","t">>, <<"R","e","s","u","l","t">>, <<"C","B","C"," ","W","i","t","h"," ","E","S","R">> }

RECURSIVE arfa_skip_columns(_, _)
arfa_skip_columns(texts, i) ==
  IF i < Len(texts) /\ at(texts, i) \in ARFA_COLUMNS
  THEN arfa_skip_columns(texts, i + 1)
  ELSE i

\* test_names of parse_arfa_format
ARFA_TEST_NAMES ==
  { <<"H","e","m","o","g","l","o","b","i","n"," ","(","H","B",")">>, <<"H","e","m","a","t","o","c","r","i","t"," ","(","H","C","T",")">>, <<"R","e","d"," ","B","l","o","o","d"," ","C","e","l","l"," ","(","R","B","C",")">>,
    <<"M","e","a","n"," ","C","e","l","l"," ","V","o","l","u","m","e"," ","(","M","C","V",")">>, <<"M","e","a","n"," ","C","e","l","l"," ","H","e","m","o","g","l","o","b","i","n"," ","(","M","C","H",")">>,
    <<"M","e","a","n"," ","C","e","l","l"," ","H","b"," ","C","o","n","c"," ","(","M","C","H","C",")">>, <<"W","h","i","t","e"," ","B","l","o","o","d"," ","C","e","l","l"," ","(","W","B","C","/","T","L","C",")">>,
    <<"N","e","u","t","r","o","p","h","i","l","s">>, <<"L","y","m","p","h","o","c","y","t","e","s">>, <<"M","o","n","o","c","y","t","e","s">>, <<"E","o","s","i","n","o","p","h","i","l">>, <<"B","a","s","o","p","h","i","l","s">>,
    <<"P","l","a","t","e","l","e","t","s"," ","C","o","u","n","t">> }

ARFA_UNITS == { <<"g","/","d","l">>, <<"%">>, <<"f","l">>, <<"p","g">>, <<"*","1","0">>, <<"/","u","l">>, <<"/","l">> }

\* the shorter unit list used to tell a value from a unit
ARFA_UNIT_MARKS == { <<"g","/","d","l">>, <<"%">>, <<"f","l">>, <<"p","g">>, <<"*","1","0">>, <<"/">> }

ARFA_INDEX_WORDS ==
  { <<"m","c","v">>, <<"m","c","h">>, <<"m","c","h","c">>, <<"h","c","t">>, <<"h","e","m","a","t","o","c","r","i","t">>, <<"m","e","a","n"," ","c","e","l","l">> }

arfa_is_range(s) == contains(s, <<"-">>) /\ any_digit(s)

\* the footer of an ARFA report is looked for only past this index
arfa_footer_from == 50

\* the lookahead window of parse_arfa_format: indices below i + 6
arfa_horizon == 6

\* the lookahead pass that finds the value and leaves the loop
arfa_lookahead_value(texts, a) ==
  LET next_text == at(texts, a.j)
  IN /\ ~(contains(next_text, <<"F","e","m","a","l","e",":">>) \/ contains(next_text, <<"M","a","l","e",":">>))
     /\ ~(arfa_is_range(next_text) /\ ~a.found_range)
     /\ ~((\E x \in ARFA_UNITS : contains(next_text, x)) /\ a.unit = <<>>)
     /\ any_digit(next_text) /\ a.value = <<>>
     /\ ~contains(next_text, <<"-">>)
     /\ ~\E x \in ARFA_UNIT_MARKS : contains(next_text, x)

\* one pass of the lookahead loop's body; a holds its locals j, value, unit,
\* ref_range, found_range
arfa_lookahead_pass(texts, a) ==
  LET next_text == at(texts, a.j)
  IN IF contains(next_text, <<"F","e","m","a","l","e",":">>) \/ contains(next_text, <<"M","a","l","e",":">>)
     THEN [a EXCEPT !.j = @ + 1]
     ELSE IF arfa_is_range(next_text) /\ ~a.found_range
     THEN [a EXCEPT !.ref_range = strip(next_text), !.found_range = TRUE, !.j = @ + 1]
     ELSE IF (\E x \in ARFA_UNITS : contains(next_text, x)) /\ a.unit = <<>>
     THEN [a EXCEPT !.unit = strip(next_text), !.j = @ + 1]
     ELSE IF arfa_lookahead_value(texts, a)
     THEN LET j1 == a.j + 1
              take_unit == /\ j1 < Len(texts) /\ a.unit = <<>>
                           /\ \E x \in ARFA_UNIT_MARKS : contains(at(texts, j1), x)
              unit == IF take_unit THEN strip(at(texts, j1)) ELSE a.unit
              j2 == IF take_unit THEN j1 + 1 ELSE j1
              take_range == /\ j2 < Len(texts) /\ a.ref_range = <<>>
                            /\ arfa_is_range(at(texts, j2))
              ref_range == IF take_range THEN strip(at(texts, j2)) ELSE a.ref_range
              j3 == IF take_range THEN j2 + 1 ELSE j2
          IN [a EXCEPT !.value = strip(next_text), !.unit = unit,
                       !.ref_range = ref_range, !.j = j3]
     ELSE [a EXCEPT !.j = @ + 1]

\* the lookahead loop of parse_arfa_format for the test name at index i
RECURSIVE arfa_lookahead(_, _, _)
arfa_lookahead(texts, i, a) ==
  IF ~(a.j < i + arfa_horizon /\ a.j < Len(texts)) THEN a
  ELSE IF arfa_lookahead_value(texts, a) THEN arfa_lookahead_pass(texts, a)
  ELSE arfa_lookahead(texts, i, arfa_lookahead_pass(texts, a))

\* the break test of the inner loop of the HAEMATOLOGY branch of
\* parse_arfa_format
arfa_haematology_breaks(texts, st) ==
  LET test_text == at(texts, st.i)
  IN \/ contains(test_text, <<"E","l","e","c","t","r","o","n","i","c","a","l","l","y"," ","G","e","n","e","r","a","t","e","d">>)
     \/ (contains(test_text, <<"D","r",".">>) /\ st.i > arfa_footer_from)
     \/ contains(test_text, <<"w","w","w",".">>)

\* one pass of that loop's body past the break test
arfa_haematology_pass(texts, st) ==
  LET i == st.i
      test_text == at(texts, i)
  IN IF test_text = <<>> \/ strip(test_text) = <<>>
     THEN [st EXCEPT !.i = @ + 1]
     ELSE IF \E tn \in ARFA_TEST_NAMES : contains(test_text, tn)
     THEN LET a == arfa_lookahead(texts, i,
                     [j |-> i + 1, value |-> <<>>, unit |-> <<>>, ref_range |-> <<>>,
                      found_range |-> FALSE])
              entry == test_entry(test_text, a.value, a.unit, a.ref_range)
          IN IF \E x \in ARFA_INDEX_WORDS : contains(lower(test_text), x)
             THEN [st EXCEPT !.parsed_data.blood_indices = Append(@, entry), !.i = a.j]
             ELSE [st EXCEPT !.parsed_data.haematology_report = Append(@, entry), !.i = a.j]
     ELSE [st EXCEPT !.i = @ + 1]

\* the inner loop of the HAEMATOLOGY branch of parse_arfa_format
RECURSIVE arfa_haematology(_, _)
arfa_haematology(texts, st) ==
  IF st.i >= Len(texts) \/ arfa_haematology_breaks(texts, st) THEN st
  ELSE arfa_haematology(texts, arfa_haematology_pass(texts, st))

\* the blocks of ARFA_FIELDS from the f-th on, then the rest of the chain
RECURSIVE arfa_fields(_, _, _)
arfa_fields(texts, st, f) ==
  LET i == st.i
      text == at(texts, i)
  IN IF f <= Len(ARFA_FIELDS)
     THEN IF contains(text, ARFA_FIELDS[f].literal) /\ i + 1 < Len(texts)
          THEN IF ARFA_FIELDS[f].section = "patient_info"
               THEN [st EXCEPT !.parsed_data.patient_info =
                                  put(@, ARFA_FIELDS[f].key, strip(at(texts, i + 1))),
                               !.i = @ + 2]
               ELSE [st EXCEPT !.parsed_data.laboratory_info =
                                  put(@, ARFA_FIELDS[f].key, strip(at(texts, i + 1))),
                               !.i = @ + 2]
          ELSE arfa_fields(texts, st, f + 1)
     ELSE IF contains(text, <<"H","A","E","M","A","T","O","L","O","G","Y">>)
     THEN arfa_haematology(texts, [st EXCEPT !.i = arfa_skip_columns(texts, i + 1)])
     ELSE IF contains(text, <<"D","r",".">>) /\ i + 1 < Len(texts)
     THEN IF ~has(st.parsed_data.footer_info, "doctor_name")
          THEN [st EXCEPT !.parsed_data.footer_info = put(@, "doctor_name", text), !.i = @ + 1]
          ELSE [st EXCEPT !.i = @ + 1]
     ELSE [st EXCEPT !.i = @ + 1]

\* one iteration of the outer while loop of parse_arfa_format
arfa_iteration(texts, st) ==
  LET text == at(texts, st.i)
  IN IF contains(text, <<"A","R","F","A"," ","D","I","A","G","N","O","S","T","I","C"," ","C","E","N","T","R","E">>) \/ contains(text, <<"A","R","F","A">>)
     THEN [st EXCEPT !.parsed_data.laboratory_info = put(@, "name", <<"A","R","F","A"," ","D","I","A","G","N","O","S","T","I","C"," ","C","E","N","T","R","E">>),
                     !.i = @ + 1]
     ELSE arfa_fields(texts, st, 1)

RECURSIVE arfa_loop(_, _)
arfa_loop(texts, st) ==
  IF st.i < Len(texts) THEN arfa_loop(texts, arfa_iteration(texts, st)) ELSE st

\* parse_arfa_format(texts)
parse_arfa_format(texts) == arfa_loop(texts, reader_start).parsed_data

----------------------------------------------------------------------------
(* Format detection and the two parse_medical_report entry points *)

\* texts[:50]: the number of leading tokens the detector joins
detect_window == 50

\* detect_chain with the grant test moved before the parth test
detect_chain_grant_first(text_str) ==
  IF contains(text_str, <<"G","R","A","N","T"," ","M","E","D","I","C","A","L">>) \/ contains(text_str, <<"G","R","A","N","T">>)
  THEN "grant"
  ELSE IF contains(text_str, <<"P","A","R","T","H"," ","P","A","T","H","O","L","O","G","Y">>) \/ contains(text_str, <<"P","A","R","T","H">>)
  THEN "parth"
  ELSE IF contains(text_str, <<"A","R","F","A"," ","D","I","A","G","N","O","S","T","I","C">>) \/ contains(text_str, <<"A","R","F","A">>)
  THEN "arfa"
  ELSE "unknown"

\* the if/elif chain of detect_report_format over the joined, upper-cased text
detect_chain(text_str) ==
  IF contains(text_str, <<"P","A","R","T","H"," ","P","A","T","H","O","L","O","G","Y">>) \/ contains(text_str, <<"P","A","R","T","H">>)
  THEN "parth"
  ELSE IF contains(text_str, <<"G","R","A","N","T"," ","M","E","D","I","C","A","L">>) \/ contains(text_str, <<"G","R","A","N","T">>)
  THEN "grant"
  ELSE IF contains(text_str, <<"A","R","F","A"," ","D","I","A","G","N","O","S","T","I","C">>) \/ contains(text_str, <<"A","R","F","A">>)
  THEN "arfa"
  ELSE "unknown"

\* detect_report_format joining the whole list
detect_report_format_whole_list(texts) ==
  IF Len(texts) = 0 THEN "unknown"
  ELSE detect_chain(upper(join(texts)))

\* detect_report_format of parsers/__init__.py
detect_report_format(texts) ==
  IF Len(texts) = 0 THEN "unknown"
  ELSE detect_chain(upper(join(take(texts, detect_window))))

\* detect_report_format of ocr_processor.py (no guard for an empty list)
pipeline_detect_report_format(texts) ==
  detect_chain(upper(join(take(texts, detect_window))))

\* [str(t).strip() for t in rec_texts if t and str(t).strip()]
RECURSIVE clean_tokens(_)
clean_tokens(items) ==
  IF Len(items) = 0 THEN <<>>
  ELSE IF strip(Head(items)) # <<>>
  THEN <<strip(Head(items))>> \o clean_tokens(Tail(items))
  ELSE clean_tokens(Tail(items))

\* package_empty_report without its other_fields key
package_empty_report_six_keys ==
  [patient_info |-> <<>>, laboratory_info |-> <<>>, haematology_report |-> <<>>,
   blood_indices |-> <<>>, morphology |-> <<>>, footer_info |-> <<>>]

\* the report parse_medical_report of parsers/__init__.py returns for a falsy
\* rec_texts
package_empty_report ==
  [patient_info |-> <<>>, laboratory_info |-> <<>>, haematology_report |-> <<>>,
   blood_indices |-> <<>>, morphology |-> <<>>, footer_info |-> <<>>,
   other_fields |-> <<>>]

\* the report parse_medical_report of ocr_processor.py returns for a falsy
\* rec_texts
pipeline_empty_report ==
  [patient_info |-> <<>>, laboratory_info |-> <<>>, haematology_report |-> <<>>,
   blood_indices |-> <<>>, morphology |-> <<>>, footer_info |-> <<>>]

\* got_some_data accepting no report
got_some_data_never(report) == FALSE

\* got_some_data accepting every report
got_some_data_always(report) == TRUE

\* "Validate that we got some data": the test on a reader's result
got_some_data(report) ==
  \/ report.haematology_report # <<>>
  \/ report.blood_indices # <<>>
  \/ report.patient_info # <<>>

\* reader_exception_caught with the try/except removed
reader_exception_never_caught(e) == FALSE

\* whether an exception raised inside the reader call is caught by the entry
\* point: try/except Exception around each reader in parsers/__init__.py, no
\* handler in ocr_processor.py
reader_exception_caught(e) == e = "package"

\* the reader an entry point runs for a format tag ("none": the universal
\* parser is called directly)
reader_for(e, tag) ==
  IF e = "package"
  THEN (IF tag \in {"parth", "grant", "arfa"} THEN tag ELSE "none")
  ELSE (IF tag \in {"grant", "arfa"} THEN tag ELSE "parth")

\* one iteration of the outer loop of the named reader
reader_iteration(name, texts, rd) ==
  IF name = "parth" THEN parth_iteration(texts, rd)
  ELSE IF name = "grant" THEN grant_iteration(texts, rd)
  ELSE arfa_iteration(texts, rd)

----------------------------------------------------------------------------
(* Inputs *)

tok_Haemoglobin == <<"H","a","e","m","o","g","l","o","b","i","n">>
tok_colon_13_5 == <<":"," ","1","3",".","5">>
tok_g_dl == <<"g","/","d","l">>
tok_13_17 == <<"1","3","-","1","7">>
tok_MCV == <<"M","C","V">>
tok_colon_10_5 == <<":","1","0",".","5">>
tok_fl == <<"f","l">>
tok_80_96 == <<"8","0","-","9","6">>
tok_Patient_ID == <<"P","a","t","i","e","n","t"," ","I","D">>
tok_colon_P12345 == <<":"," ","P","1","2","3","4","5">>
tok_P12345 == <<"P","1","2","3","4","5">>
tok_Age_Sex == <<"A","g","e","/","S","e","x">>
tok_34_M == <<"3","4","/","M">>
tok_34 == <<"3","4">>
tok_M == <<"M">>
tok_13_5 == <<"1","3",".","5">>
tok_HAEMATOLOGY == <<"H","A","E","M","A","T","O","L","O","G","Y">>
tok_BLOOD_INDICES == <<"B","L","O","O","D"," ","I","N","D","I","C","E","S">>
tok_PARTH == <<"P","A","R","T","H">>
tok_GRANT_MEDICAL == <<"G","R","A","N","T"," ","M","E","D","I","C","A","L">>
tok_GRANT == <<"G","R","A","N","T">>
tok_ARFA == <<"A","R","F","A">>
tok_x == <<"x">>
tok_Key == <<"K","e","y",":">>
tok_Result == <<"R","e","s","u","l","t">>
tok_Test_Name == <<"T","e","s","t"," ","N","a","m","e">>
tok_Sex == <<"S","e","x">>
tok_City_Lab == <<"C","i","t","y"," ","L","a","b">>
tok_Normocytic == <<"N","o","r","m","o","c","y","t","i","c">>
tok_RBC_Morphology == <<"R","B","C"," ","M","o","r","p","h","o","l","o","g","y">>
tok_MORPHOLOGY == <<"M","O","R","P","H","O","L","O","G","Y">>
tok_ABSOLUTE_COUNT == <<"A","B","S","O","L","U","T","E"," ","C","O","U","N","T">>
tok_DIFFERENTIAL_COUNT == <<"D","I","F","F","E","R","E","N","T","I","A","L"," ","C","O","U","N","T">>
tok_WBC_5000 == <<"W","B","C",":"," ","5","0","0","0">>

\* the tokens of the free sequences
Tokens ==
  { tok_Haemoglobin, tok_colon_13_5, tok_g_dl, tok_13_17, tok_MCV, tok_Patient_ID,
    tok_colon_P12345, tok_HAEMATOLOGY, tok_BLOOD_INDICES, tok_PARTH, tok_GRANT_MEDICAL,
    tok_ARFA }

\* the phrases of the composed reports
Blocks ==
  { <<tok_Haemoglobin, tok_colon_13_5, tok_g_dl, tok_13_17>>,
    <<tok_MCV, tok_colon_10_5, tok_fl, tok_80_96>>,
    <<tok_Patient_ID, tok_colon_P12345>>,
    <<tok_Age_Sex, tok_34_M>>,
    <<<<"P","A","R","T","H"," ","P","A","T","H","O","L","O","G","Y"," ","L","A","B","O","R","A","T","O","R","Y">>>>,
    <<<<"G","r","a","n","t"," ","M","e","d","i","c","a","l"," ","F","o","u","n","d","a","t","i","o","n">>, <<"S","p","e","c","i","m","e","n">>, <<":"," ","B","l","o","o","d">>>>,
    <<<<"A","R","F","A"," ","D","I","A","G","N","O","S","T","I","C"," ","C","E","N","T","R","E">>, <<"P","a","t","i","e","n","t"," ","N","a","m","e",":">>, <<"A","l","i">>>>,
    <<tok_HAEMATOLOGY>>,
    <<tok_BLOOD_INDICES>>,
    <<<<>>, <<" ","1","3",".","5"," ">>>> }

\* longest free sequence
MaxLen == 2

\* most phrases in a composed report
MaxBlocks == 2

RECURSIVE SeqsUpTo(_, _)
SeqsUpTo(S, n) ==
  IF n = 0 THEN { <<>> }
  ELSE LET shorter == SeqsUpTo(S, n - 1)
       IN shorter \cup { Append(s, x) : s \in {t \in shorter : Len(t) = n - 1}, x \in S }

RECURSIVE Composed(_)
Composed(n) ==
  IF n = 0 THEN { <<>> }
  ELSE LET fewer == Composed(n - 1)
       IN fewer \cup { s \o b : s \in fewer, b \in Blocks }

\* n copies of the filler token
Pad(n) == [k \in 1..n |-> tok_x]

\* sequences longer than the detector's window: a lab literal as the last
\* token inside the window (index 49) or the first outside it (index 50)
LongInputs ==
  { Pad(n) \o <<t>> : n \in {detect_window - 1, detect_window},
                      t \in {tok_PARTH, tok_GRANT_MEDICAL, tok_ARFA} }

\* whole reports: an ARFA report with a test row, a keyword that is both a
\* patient and a lab field as the last but one token, a doctor line, a
\* patient field followed by a section marker, and a section marker between
\* a test name and its value, the name and value of a second test between a
\* value and its unit, a value six tokens after its name, and the same test
\* under an indices marker and under a later haematology marker, and
\* tests before and after two category markers and a section marker, and
\* a morphology field with its value after a morphology marker, and
\* a patient field with its value three tokens and four tokens after it, and
\* a lab name followed by a patient field, and
\* column headers after an indices marker and after a haematology marker, and
\* an unknown key written three times around a key of two characters, and
\* a report for each reader with column headers, test rows and the headings
\* its inner loops stop at, the parth one with a dated and an undated date line
Reports ==
  { <<<<"A","R","F","A"," ","D","I","A","G","N","O","S","T","I","C"," ","C","E","N","T","R","E">>, tok_HAEMATOLOGY, <<"N","e","u","t","r","o","p","h","i","l","s">>, <<"6","0">>, <<"%">>, <<"4","0","-","8","0">>>>,
    <<<<"P","h","o","n","e">>, <<"1","2","3","4","5">>>>,
    <<<<"D","r","."," ","K","h","a","n">>, <<"M","B","B","S">>>>,
    <<tok_Age_Sex, tok_34_M, tok_BLOOD_INDICES, tok_Haemoglobin, tok_13_5>>,
    <<tok_Haemoglobin, tok_BLOOD_INDICES, tok_13_5>>,
    <<tok_Haemoglobin, tok_13_5, tok_WBC_5000, tok_g_dl>>,
    <<tok_Haemoglobin, tok_x, tok_x, tok_x, tok_x, tok_x, tok_13_5>>,
    <<tok_BLOOD_INDICES, tok_Haemoglobin, tok_13_5, tok_HAEMATOLOGY, tok_Haemoglobin, tok_13_5>>,
    <<tok_Haemoglobin, tok_13_5, tok_DIFFERENTIAL_COUNT, tok_Haemoglobin, tok_13_5, tok_HAEMATOLOGY, tok_MCV, tok_13_5, tok_ABSOLUTE_COUNT, tok_Haemoglobin, tok_13_5>>,
    <<tok_MORPHOLOGY, tok_RBC_Morphology, tok_Normocytic>>,
    <<tok_Patient_ID, <<":">>, <<".">>, tok_P12345>>,
    <<tok_Patient_ID, <<":">>, <<".">>, <<"\"">>, tok_P12345>>,
    <<tok_City_Lab, tok_Sex, tok_M>>,
    <<tok_BLOOD_INDICES, tok_Test_Name, tok_Result, tok_MCV, tok_13_5>>,
    <<tok_HAEMATOLOGY, tok_Test_Name, tok_Result, tok_MCV, tok_13_5>>,
    <<tok_Key, <<"a">>, tok_Key, <<"b">>, <<"a","b",":">>, <<"c">>, tok_Key, <<"d">>>>,
    <<<<"P","A","R","T","H"," ","P","A","T","H","O","L","O","G","Y"," ","L","A","B","O","R","A","T","O","R","Y">>, <<"C","o","l","l","e","c","t","i","o","n"," ","D","a","t","e">>, <<":"," ","1","2","/","0","1">>, <<"R","e","p","o","r","t","i","n","g"," ","D","a","t","e">>, tok_x, <<"H","A","E","M","A","T","O","L","O","G","Y"," ","R","E","P","O","R","T">>, tok_Test_Name, <<"U","n","i","t">>, tok_Haemoglobin, tok_colon_13_5, tok_g_dl, tok_13_17, tok_DIFFERENTIAL_COUNT, <<"N","e","u","t","r","o","p","h","i","l","s">>, <<":"," ","6","0">>, <<"%">>, <<"4","0","-","7","5">>, tok_BLOOD_INDICES, <<"M",".","C",".","V",".">>, <<"8","0">>>>,
    <<<<"G","r","a","n","t"," ","M","e","d","i","c","a","l"," ","F","o","u","n","d","a","t","i","o","n">>, tok_HAEMATOLOGY, <<"I","n","v","e","s","t","i","g","a","t","i","o","n">>, tok_Result, tok_Haemoglobin, tok_colon_13_5, tok_g_dl, tok_13_17, <<"D","i","f","f","e","r","e","n","t","i","a","l"," ","C","o","u","n","t">>, <<"M","e","t","h","o","d"," ",":">>, tok_MCV, <<":"," ","1","0",".","5">>, tok_fl, tok_80_96, <<"P","r","i","n","t","e","d"," ","B","y">>, tok_x>>,
    <<<<"A","R","F","A"," ","D","I","A","G","N","O","S","T","I","C"," ","C","E","N","T","R","E">>, tok_HAEMATOLOGY, <<"T","e","s","t">>, <<"U","n","i","t">>, <<"H","e","m","o","g","l","o","b","i","n"," ","(","H","B",")">>, <<"F","e","m","a","l","e",":"," ","1","1","-","1","5">>, tok_13_17, tok_g_dl, tok_13_5, <<"N","e","u","t","r","o","p","h","i","l","s">>, <<"6","0">>, <<"%">>, <<"4","0","-","7","5">>, <<"w","w","w",".","a","r","f","a">>>> }

\* rec_texts: None, or a list of strings
Inputs ==
  { [null |-> TRUE, items |-> <<>>] }
    \cup { [null |-> FALSE, items |-> s] :
             s \in SeqsUpTo(Tokens, MaxLen) \cup Composed(MaxBlocks) \cup LongInputs
                     \cup Reports }

\* the functions a caller can call: parse_medical_report of
\* parsers/__init__.py, parse_medical_report of ocr_processor.py, and
\* parse_universal_format itself
Entries == {"package", "pipeline", "universal"}

----------------------------------------------------------------------------
(* State *)

VARIABLES
  pc,             \* where the call stands: idle, detect, reader, scan, done
  entry,          \* the function called, "" before the call
  rec_texts,      \* its argument
  texts,          \* the list of strings the parsers work on
  format_type,    \* the detector's tag, "" before detection
  reader,         \* the reader run ("none" if none) and how it ended
  rd,             \* the locals of the reader
  st,             \* the locals of parse_universal_format
  ran,            \* the parsers called so far
  result,         \* the returned report: None until the call returns
  raised,         \* an exception reached the caller
  probe,          \* a classifier call: the token and the verdict
  log             \* the calls that returned so far, in order

vars == <<pc, entry, rec_texts, texts, format_type, reader, rd, st, ran, result, raised, probe, log>>

parse_vars == <<pc, entry, rec_texts, texts, format_type, reader, rd, st, ran, result, raised>>

NoProbe == [text |-> <<>>, called |-> FALSE, is_reference_range |-> FALSE]

Init ==
  /\ pc = "idle"
  /\ entry = ""
  /\ rec_texts = [null |-> TRUE, items |-> <<>>]
  /\ texts = <<>>
  /\ format_type = ""
  /\ reader = [name |-> "none", outcome |-> "none"]
  /\ rd = reader_start
  /\ st = scan_start
  /\ ran = {}
  /\ result = None
  /\ raised = FALSE
  /\ probe = NoProbe
  /\ log = <<>>

\* EnterUniversal with parsed_data built once and shared by every call
EnterUniversalSharedReport(list) ==
  /\ ran' = ran \cup {"universal"}
  /\ st' = [scan_start EXCEPT !.parsed_data = st.parsed_data]
  /\ IF Len(list) = 0
     THEN /\ result' = Some(st.parsed_data)
          /\ texts' = list
          /\ pc' = "done"
     ELSE /\ result' = result
          /\ texts' = clean_universal(list)
          /\ pc' = "scan"

\* the call parse_universal_format(list) up to the loop: the empty-list
\* return, or the cleaned list and the fresh locals
EnterUniversal(list) ==
  /\ ran' = ran \cup {"universal"}
  /\ st' = scan_start
  /\ IF Len(list) = 0
     THEN /\ result' = Some(EmptyReport7)
          /\ texts' = list
          /\ pc' = "done"
     ELSE /\ result' = result
          /\ texts' = clean_universal(list)
          /\ pc' = "scan"

\* a caller calls one of the entry points with rec_texts = input
Call(e, input) ==
  /\ pc = "idle"
  /\ entry' = e
  /\ rec_texts' = input
  /\ UNCHANGED <<format_type, reader, rd, raised, probe, log>>
  /\ IF e = "universal"
     THEN IF input.null
          THEN /\ result' = Some(EmptyReport7)
               /\ pc' = "done"
               /\ UNCHANGED <<texts, st, ran>>
          ELSE EnterUniversal(input.items)
     ELSE IF input.null \/ Len(input.items) = 0
          THEN /\ result' = Some(IF e = "package" THEN package_empty_report
                                 ELSE pipeline_empty_report)
               /\ pc' = "done"
               /\ UNCHANGED <<texts, st, ran>>
          ELSE /\ texts' = clean_tokens(input.items)
               /\ pc' = "detect"
               /\ UNCHANGED <<st, ran, result>>

\* Detect with the reader's parsed_data built once and shared by every call
DetectSharedReaderReport ==
  /\ pc = "detect"
  /\ LET tag == IF entry = "package" THEN detect_report_format(texts)
                ELSE pipeline_detect_report_format(texts)
         name == reader_for(entry, tag)
     IN /\ format_type' = tag
        /\ IF name = "none"
           THEN /\ EnterUniversal(texts)
                /\ UNCHANGED <<reader, rd>>
           ELSE /\ reader' = [name |-> name, outcome |-> "running"]
                /\ rd' = [reader_start EXCEPT !.parsed_data = rd.parsed_data]
                /\ ran' = ran \cup {name}
                /\ pc' = "reader"
                /\ UNCHANGED <<texts, st, result>>
  /\ UNCHANGED <<entry, rec_texts, raised, probe, log>>

\* parse_medical_report: "Detect format" and the routing on the tag
Detect ==
  /\ pc = "detect"
  /\ LET tag == IF entry = "package" THEN detect_report_format(texts)
                ELSE pipeline_detect_report_format(texts)
         name == reader_for(entry, tag)
     IN /\ format_type' = tag
        /\ IF name = "none"
           THEN /\ EnterUniversal(texts)
                /\ UNCHANGED <<reader, rd>>
           ELSE /\ reader' = [name |-> name, outcome |-> "running"]
                /\ rd' = reader_start
                /\ ran' = ran \cup {name}
                /\ pc' = "reader"
                /\ UNCHANGED <<texts, st, result>>
  /\ UNCHANGED <<entry, rec_texts, raised, probe, log>>

\* one iteration of the reader's outer loop
ReaderStep ==
  /\ pc = "reader"
  /\ rd.i < Len(texts)
  /\ rd' = reader_iteration(reader.name, texts, rd)
  /\ UNCHANGED <<pc, entry, rec_texts, texts, format_type, reader, st, ran, result, raised, probe, log>>

\* the reader returns parsed_data; the package entry point validates it and
\* falls back to the universal parser, the pipeline returns it as it is
ReaderReturn ==
  /\ pc = "reader"
  /\ rd.i >= Len(texts)
  /\ reader' = [reader EXCEPT !.outcome = "returned"]
  /\ IF entry = "package" /\ ~got_some_data(rd.parsed_data)
     THEN EnterUniversal(texts)
     ELSE /\ result' = Some(rd.parsed_data)
          /\ pc' = "done"
          /\ UNCHANGED <<texts, st, ran>>
  /\ UNCHANGED <<entry, rec_texts, format_type, rd, raised, probe, log>>

\* the reader call raises an Exception (no token makes a reader raise: the
\* exception is one the run-time raises inside the call, such as MemoryError);
\* the reader's locals go with its frame
ReaderRaise ==
  /\ pc = "reader"
  /\ reader' = [reader EXCEPT !.outcome = "raised"]
  /\ rd' = reader_start
  /\ IF reader_exception_caught(entry)
     THEN /\ EnterUniversal(texts)
          /\ UNCHANGED raised
     ELSE /\ raised' = TRUE
          /\ pc' = "done"
          /\ UNCHANGED <<texts, st, ran, result>>
  /\ UNCHANGED <<entry, rec_texts, format_type, probe, log>>

\* one iteration of the while loop of parse_universal_format
ScanStep ==
  /\ pc = "scan"
  /\ st.i < Len(texts)
  /\ st' = scan_iteration(texts, st)
  /\ UNCHANGED <<pc, entry, rec_texts, texts, format_type, reader, rd, ran, result, raised, probe, log>>

\* parse_universal_format returns parsed_data, and so does its caller
ScanReturn ==
  /\ pc = "scan"
  /\ st.i >= Len(texts)
  /\ result' = Some(st.parsed_data)
  /\ pc' = "done"
  /\ UNCHANGED <<entry, rec_texts, texts, format_type, reader, rd, st, ran, raised, probe, log>>

Next ==
  \/ \E e \in Entries, input \in Inputs : Call(e, input)
  \/ Detect
  \/ ReaderStep
  \/ ReaderReturn
  \/ ReaderRaise
  \/ ScanStep
  \/ ScanReturn

Spec == Init /\ [][Next]_vars

----------------------------------------------------------------------------
(* Classifier calls: a token is drawn and is_reference_range is applied *)

\* the characters of the drawn tokens
ProbeChars == {"1", "7", "-", " ", ".", "a"}

\* longest drawn token
MaxTextLen == 4

ProbeTexts ==
  SeqsUpTo(ProbeChars, MaxTextLen)
    \cup { tok_13_17, <<"4",".","5"," ","-"," ","6",".","0">>, <<"4","0","0","0","-","1","1","0","0","0">>, tok_13_5 }

InitProbe ==
  /\ pc = "idle"
  /\ entry = ""
  /\ rec_texts = [null |-> TRUE, items |-> <<>>]
  /\ texts = <<>>
  /\ format_type = ""
  /\ reader = [name |-> "none", outcome |-> "none"]
  /\ rd = reader_start
  /\ st = scan_start
  /\ ran = {}
  /\ result = None
  /\ raised = FALSE
  /\ probe \in { [text |-> t, called |-> FALSE, is_reference_range |-> FALSE] : t \in ProbeTexts }
  /\ log = <<>>

\* the call is_reference_range(probe.text)
Classify ==
  /\ ~probe.called
  /\ probe' = [probe EXCEPT !.called = TRUE,
                            !.is_reference_range = is_reference_range(probe.text)]
  /\ UNCHANGED <<parse_vars, log>>

NextProbe == Classify

SpecProbe == InitProbe /\ [][NextProbe]_vars

----------------------------------------------------------------------------
(* Several calls, one after the other.  A call that returned is entered in   *)
(* log; the locals of the returned call (texts, rd, st) are left as the call *)
(* left them, so a later call sees them unless it builds its own.  The runs  *)
(* are those in which the run-time makes no reader call fail.                *)

\* most calls in a run
MaxCalls == 3

\* the arguments of the calls of a run
RunInputs ==
  { [null |-> FALSE, items |-> <<tok_Age_Sex, tok_34_M, tok_Haemoglobin, tok_colon_13_5, tok_g_dl, tok_13_17>>],
    [null |-> FALSE, items |-> <<<<" ","P","h","o","n","e",":"," ","1"," ">>, <<>>>>],
    [null |-> FALSE, items |-> <<tok_GRANT, tok_HAEMATOLOGY, tok_Haemoglobin, tok_colon_13_5, tok_g_dl, tok_13_17>>] }

\* the entry points of parsers/
RunEntries == {"package", "universal"}

\* the call returned to its caller, which may call again
Finish ==
  /\ pc = "done"
  /\ Len(log) < MaxCalls
  /\ log' = Append(log, [entry |-> entry, input |-> rec_texts,
                         result |-> result, raised |-> raised])
  /\ pc' = "idle"
  /\ entry' = ""
  /\ format_type' = ""
  /\ reader' = [name |-> "none", outcome |-> "none"]
  /\ ran' = {}
  /\ result' = None
  /\ raised' = FALSE
  /\ UNCHANGED <<rec_texts, texts, rd, st, probe>>

NextRuns ==
  \/ Len(log) < MaxCalls /\ \E e \in RunEntries, input \in RunInputs : Call(e, input)
  \/ Detect
  \/ ReaderStep
  \/ ReaderReturn
  \/ ScanStep
  \/ ScanReturn
  \/ Finish

SpecRuns == Init /\ [][NextRuns]_vars

----------------------------------------------------------------------------
(* Properties *)

ReportKeys7 ==
  {"patient_info", "laboratory_info", "haematology_report", "blood_indices",
   "morphology", "footer_info", "other_fields"}

\* the call returned (and raised nothing) from the package entry point or
\* from parse_universal_format itself
Returned == pc = "done" /\ entry \in {"package", "universal"} /\ result.some

\* the token sequence parse_medical_report hands to the parsers
Cleaned == clean_tokens(rec_texts.items)

KnownFormats == {"parth", "grant", "arfa"}

\* C1: for an empty or null token sequence parse_universal_format and
\* parse_medical_report of parsers/__init__.py return, without raising, a
\* report with the seven keys, every mapping and every sequence empty.
C1_EmptyInputEmptyReport ==
  (/\ pc = "done"
   /\ entry \in {"package", "universal"}
   /\ (rec_texts.null \/ rec_texts.items = <<>>))
    => /\ ~raised
       /\ result.some
       /\ DOMAIN result.value = ReportKeys7
       /\ \A k \in ReportKeys7 : result.value[k] = <<>>

C1_Witness ==
  /\ pc = "done" /\ entry = "package" /\ rec_texts.null
  /\ result.some /\ result.value.other_fields = <<>>

\* C2: in parse_medical_report of the package, when the format is known and
\* the reader returned a report whose patient_info, haematology_report and
\* blood_indices are all empty, the report returned is that of
\* parse_universal_format on the same token sequence.
C2_EmptyReaderFallsBack ==
  (/\ pc = "done"
   /\ entry = "package"
   /\ format_type \in KnownFormats
   /\ reader.outcome = "returned"
   /\ rd.parsed_data.patient_info = <<>>
   /\ rd.parsed_data.haematology_report = <<>>
   /\ rd.parsed_data.blood_indices = <<>>)
    => result = Some(parse_universal_format(Cleaned))

C2_Witness ==
  /\ pc = "done" /\ entry = "package" /\ format_type \in KnownFormats
  /\ reader.outcome = "returned"
  /\ rd.parsed_data.patient_info = <<>>
  /\ rd.parsed_data.haematology_report = <<>>
  /\ rd.parsed_data.blood_indices = <<>>
  /\ rd.parsed_data.laboratory_info # <<>>
  /\ result.some /\ result.value.haematology_report # <<>>

\* C3: in parse_medical_report of the package, when the reader chosen for a
\* known format raises, the exception does not reach the caller and the report
\* returned is that of parse_universal_format on the same token sequence.
C3_ReaderExceptionFallsBack ==
  (pc = "done" /\ entry = "package" /\ reader.outcome = "raised")
    => /\ ~raised
       /\ result = Some(parse_universal_format(Cleaned))

C3_Witness ==
  /\ pc = "done" /\ entry = "package" /\ reader.outcome = "raised"
  /\ format_type \in KnownFormats
  /\ result.some /\ "universal" \in ran

\* C4: for every token sequence the detector tags unknown, both
\* parse_medical_report entry points return the universal parser's result and
\* run no format-specific reader.
C4_UnknownGoesUniversal ==
  (pc = "done" /\ entry \in {"package", "pipeline"} /\ format_type = "unknown" /\ ~raised)
    => /\ result = Some(parse_universal_format(Cleaned))
       /\ ran = {"universal"}

\* one of the first 50 tokens contains the literal (case folded)
InWindow(literal) ==
  \E k \in 1..Len(texts) : k <= 50 /\ contains(upper(texts[k]), literal)

\* C5: detect_report_format applies the priority parth, grant, arfa: PARTH
\* and GRANT MEDICAL among the first 50 tokens give parth, GRANT and ARFA
\* without PARTH give grant, and the tag is always one of the four.
C5_DetectPriority ==
  format_type # ""
    => /\ format_type \in {"parth", "grant", "arfa", "unknown"}
       /\ (InWindow(<<"P","A","R","T","H">>) /\ InWindow(<<"G","R","A","N","T"," ","M","E","D","I","C","A","L">>)) => format_type = "parth"
       /\ (InWindow(<<"G","R","A","N","T">>) /\ InWindow(<<"A","R","F","A">>) /\ ~InWindow(<<"P","A","R","T","H">>))
            => format_type = "grant"

C5_Witness ==
  /\ format_type = "parth"
  /\ InWindow(<<"P","A","R","T","H">>) /\ InWindow(<<"G","R","A","N","T"," ","M","E","D","I","C","A","L">>)

\* C6: for ["Haemoglobin", ": 13.5", "g/dl", "13-17"] the engine produces the
\* haematology entry Haemoglobin / 13.5 / g/dl / 13-17: a value token written
\* as a colon, optional space and a number yields that number.
C6_HaemoglobinEntry ==
  (Returned /\ ~rec_texts.null
     /\ rec_texts.items = <<tok_Haemoglobin, tok_colon_13_5, tok_g_dl, tok_13_17>>)
    => \E k \in 1..Len(result.value.haematology_report) :
         result.value.haematology_report[k]
           = test_entry(tok_Haemoglobin, tok_13_5, tok_g_dl, tok_13_17)

\* the keywords of the index family (MCV, MCH, MCHC, HCT, RDW, MPV, PCT, PDW)
IndexKeywords ==
  { <<"m","c","v">>, <<"m",".","c",".","v",".">>, <<"m","e","a","n"," ","c","e","l","l"," ","v","o","l","u","m","e">>,
    <<"m","c","h">>, <<"m",".","c",".","h",".">>, <<"m","e","a","n"," ","c","e","l","l"," ","h","e","m","o","g","l","o","b","i","n">>,
    <<"m","c","h","c">>, <<"m",".","c",".","h",".","c",".">>, <<"m","e","a","n"," ","c","e","l","l"," ","h","b"," ","c","o","n","c">>, <<"m","e","a","n"," ","c","e","l","l"," ","h","e","m","o","g","l","o","b","i","n"," ","c","o","n","c","e","n","t","r","a","t","i","o","n">>,
    <<"h","c","t">>, <<"h",".","c",".","t",".">>, <<"h","e","m","a","t","o","c","r","i","t">>, <<"h","a","e","m","a","t","o","c","r","i","t">>,
    <<"r","d","w">>, <<"r",".","d",".","w",".">>, <<"r","d","w","-","c","v">>, <<"r","d","w","-","s","d">>,
    <<"m","p","v">>, <<"m",".","p",".","v",".">>, <<"m","e","a","n"," ","p","l","a","t","e","l","e","t"," ","v","o","l","u","m","e">>,
    <<"p","c","t">>, <<"p","l","a","t","e","l","e","t","c","r","i","t">>,
    <<"p","d","w">> }

HasIndexKeyword(test_name) ==
  \E kw \in IndexKeywords : contains(strip(lower(test_name)), kw)

NamedMCV(entries) == \E k \in 1..Len(entries) : entries[k].test_name = tok_MCV

\* the MCV example, alone or after section markers that set the flags
MCVExamples ==
  { prefix \o <<tok_MCV, tok_colon_10_5, tok_fl, tok_80_96>> :
      prefix \in { <<>>, <<tok_HAEMATOLOGY>>, <<tok_BLOOD_INDICES>>,
                   <<tok_BLOOD_INDICES, tok_HAEMATOLOGY>> } }

\* C7: a test result the universal parser accepts under a name that contains
\* an index keyword is filed into blood_indices, never into
\* haematology_report, whatever the section flags; so is the entry for "MCV"
\* followed by ":10.5", "fl", "80-96".
C7_IndexNamesGoToBloodIndices ==
  /\ \A k \in 1..Len(st.parsed_data.haematology_report) :
       ~HasIndexKeyword(st.parsed_data.haematology_report[k].test_name)
  /\ (Returned /\ ~rec_texts.null /\ rec_texts.items \in MCVExamples)
       => /\ NamedMCV(result.value.blood_indices)
          /\ ~NamedMCV(result.value.haematology_report)

C7_Witness ==
  /\ Returned
  /\ rec_texts.items = <<tok_HAEMATOLOGY, tok_MCV, tok_colon_10_5, tok_fl, tok_80_96>>
  /\ st.in_haematology_section /\ ~st.in_blood_indices_section
  /\ NamedMCV(result.value.blood_indices)

\* C8: for ["Patient ID", ": P12345"] the engine sets patient_info.patient_id
\* to "P12345": the value after the colon of the token that follows the
\* keyword is stored under the canonical field name.
C8_PatientIdAfterColon ==
  (Returned /\ ~rec_texts.null /\ rec_texts.items = <<tok_Patient_ID, tok_colon_P12345>>)
    => /\ has(result.value.patient_info, "patient_id")
       /\ get(result.value.patient_info, "patient_id") = tok_P12345

\* C9: for "Age/Sex" followed by "34/M" the engine sets patient_info.age to
\* "34" and patient_info.gender to "M", and stores the combined string under
\* no key.
C9_AgeSexSplit ==
  (Returned /\ ~rec_texts.null /\ rec_texts.items = <<tok_Age_Sex, tok_34_M>>)
    => LET info == result.value.patient_info
       IN /\ has(info, "age") /\ get(info, "age") = tok_34
          /\ has(info, "gender") /\ get(info, "gender") = tok_M
          /\ \A k \in 1..Len(info) : info[k].value # tok_34_M

\* digits, then one or more whitespace or hyphen characters, then digits
DigitsGapDigits(text) ==
  \E a \in 1..Len(text), b \in 1..Len(text) :
    /\ a + 1 < b
    /\ text[a] \in Digits /\ text[b] \in Digits
    /\ \A k \in (a + 1)..(b - 1) : text[k] \in {" ", "\t", "\n", "\r", "-"}

HyphenAndDigit(text) ==
  /\ \E k \in 1..Len(text) : text[k] = "-"
  /\ \E k \in 1..Len(text) : text[k] \in Digits

\* C10: is_reference_range is true for "13-17", "4.5 - 6.0" and "4000-11000"
\* and false for "13.5"; it is true exactly when the token holds digits, a run
\* of whitespace or hyphens, then digits, or holds a hyphen and a digit.
C10_ReferenceRange ==
  probe.called
    => /\ probe.is_reference_range
            <=> (DigitsGapDigits(probe.text) \/ HyphenAndDigit(probe.text))
       /\ probe.text \in {tok_13_17, <<"4",".","5"," ","-"," ","6",".","0">>, <<"4","0","0","0","-","1","1","0","0","0">>}
            => probe.is_reference_range
       /\ probe.text = tok_13_5 => ~probe.is_reference_range

C10_Witness ==
  /\ probe.called /\ probe.text = <<"4",".","5"," ","-"," ","6",".","0">> /\ probe.is_reference_range

\* the four base keys of a test result
BaseKeys == {"test_name", "observed_value", "unit", "reference_range"}

\* a test result with the four base keys, each a string
WellFormedEntry(e) ==
  /\ BaseKeys \subseteq DOMAIN e
  /\ \A k \in BaseKeys : e[k] \in Seq(STRING)

WellFormedEntries(entries) ==
  \A k \in 1..Len(entries) : WellFormedEntry(entries[k])

\* C11: every entry of haematology_report and of blood_indices of every
\* report parse_medical_report returns, from the universal parser or from a
\* fixed-layout reader, has the keys test_name, observed_value, unit and
\* reference_range, each holding a string.
C11_EntriesHaveBaseKeys ==
  (pc = "done" /\ result.some)
    => /\ WellFormedEntries(result.value.haematology_report)
       /\ WellFormedEntries(result.value.blood_indices)

C11_Witness ==
  /\ pc = "done" /\ entry = "package" /\ result.some
  /\ reader.name = "arfa" /\ reader.outcome = "returned" /\ ran = {"arfa"}
  /\ result.value.haematology_report # <<>>

\* C12: parsing is deterministic: two calls of parse_medical_report, or of
\* parse_universal_format, on the same token sequence return equal reports
\* (same list entries in the same order, same mapping keys in the same
\* order), whatever was parsed before or in between.
C12_SameInputSameReport ==
  \A a \in 1..Len(log), b \in 1..Len(log) :
    (pc = "idle" /\ log[a].entry = log[b].entry /\ log[a].input = log[b].input)
      => /\ log[a].result = log[b].result
         /\ log[a].raised = log[b].raised

C12_Witness ==
  /\ Len(log) = 3
  /\ log[1].entry = "package" /\ log[3].entry = "package"
  /\ log[1].input = log[3].input
  /\ log[2].input # log[1].input
  /\ log[2].result.some /\ log[2].result.value.haematology_report # <<>>
  /\ log[3].result.some /\ log[3].result.value.haematology_report # <<>>
  /\ "other_fields" \notin DOMAIN log[3].result.value

\* what parse_universal_format returns for an argument when it is the only
\* call ever made
UniversalAlone(input) ==
  Some(IF input.null THEN EmptyReport7 ELSE parse_universal_format(input.items))

C13_ReadsInRange ==
  /\ pc = "scan" => st.reads \subseteq 0..(Len(texts) - 1)
  /\ (pc = "scan" /\ st.i < Len(texts))
       => iteration_reads(texts, st) \subseteq 0..(Len(texts) - 1)

\* the patient rule stored a value and left the cursor at the end of the
\* sequence; the lab rule then matched the same keyword and asked for the
\* value after index length
C13_Witness ==
  /\ pc = "scan"
  /\ texts = <<<<"P","h","o","n","e">>, <<"1","2","3","4","5">>>>
  /\ "patient" \in st.stored
  /\ st.i > Len(texts)
  /\ st.reads = {0, 1}

\* C15: in parse_medical_report, when the format is known and the reader
\* returned, without raising, a report in which patient_info,
\* haematology_report or blood_indices is non-empty, that report is returned
\* unchanged and the universal parser is not run.
C15_UsableReaderReportReturned ==
  (/\ pc = "done"
   /\ entry \in {"package", "pipeline"}
   /\ format_type \in KnownFormats
   /\ reader.outcome = "returned"
   /\ \/ rd.parsed_data.patient_info # <<>>
      \/ rd.parsed_data.haematology_report # <<>>
      \/ rd.parsed_data.blood_indices # <<>>)
    => /\ result = Some(rd.parsed_data)
       /\ ran = {format_type}

C15_Witness ==
  /\ pc = "done" /\ entry = "package" /\ format_type = "arfa"
  /\ reader.outcome = "returned"
  /\ rd.parsed_data.patient_info = <<>>
  /\ rd.parsed_data.haematology_report # <<>>
  /\ result = Some(rd.parsed_data)
  /\ ran = {"arfa"}

\* C16: in the main scan the first matching rule wins: in one loop iteration
\* at most one rule stores data, so when the patient rule or the lab rule
\* stored a value, no test result, morphology, footer or other_fields entry
\* is recorded in the same iteration.
C16_FirstMatchWins ==
  pc = "scan"
    => /\ Cardinality(st.stored) <= 1
       /\ (st.stored \cap {"patient", "lab"} # {})
            => st.stored \cap {"test", "morphology", "footer", "other"} = {}

\* C17: when the patient rule stores a value for the keyword at cursor
\* position p, the iteration ends with the cursor at p + 2, so that the token
\* at p + 2 is the next one put through the whole rule chain.
C17_PatientPairAdvancesByTwo ==
  [][(pc = "scan" /\ pc' = "scan" /\ st'.i # st.i /\ "patient" \in st'.stored)
       => st'.i = st.i + 2]_vars

\* the number of non-empty fields among observed_value, unit, reference_range
FilledFields(r) ==
  (IF r.observed_value # <<>> THEN 1 ELSE 0)
    + (IF r.unit # <<>> THEN 1 ELSE 0)
    + (IF r.reference_range # <<>> THEN 1 ELSE 0)

\* C18: after the result of parse_test_result, called on the name at index
\* s, was filed, the next iteration starts at s + 1 + k, k the number of
\* non-empty fields among observed_value, unit and reference_range, however
\* many tokens the lookahead scanned.
C18_AdvanceByFilledFields ==
  (pc = "scan" /\ st.accepted.some)
    => st.i = st.accepted.value.start_idx + 1 + FilledFields(st.accepted.value.result)

\* the lookahead scanned three tokens and filled two fields
C18_Witness ==
  /\ pc = "scan" /\ st.accepted.some
  /\ texts = <<tok_Haemoglobin, tok_colon_13_5, tok_g_dl, tok_13_17>>
  /\ st.accepted.value.start_idx = 0
  /\ FilledFields(st.accepted.value.result) = 2
  /\ st.skipped = {1}
  /\ st.i = 3

\* C19: every token the lookahead of parse_test_result passed over without
\* filling a field, while producing a result that was filed, is later the
\* current token of an iteration of the main scan.
C19_SkippedTokensRevisited ==
  pc = "done" => st.skipped \subseteq st.visited

\* the window of parse_test_result called on index start: the five indices
\* after it, as far as the sequence goes
Window(tx, start) == {j \in start + 1 .. start + 5 : j < Len(tx)}

\* the indices the lookahead of that call inspected
Inspected(tx, start) == lookahead_reads(tx, start, recognizer_start(tx, start))

\* the locals of the lookahead, started with the locals s, when it is about
\* to inspect index j
RECURSIVE LocalsAt(_, _, _)
LocalsAt(tx, s, j) ==
  IF s.i >= j THEN s ELSE LocalsAt(tx, lookahead_step(tx, s), j)

\* the field f of the result after the token at index j was inspected
FieldAfter(tx, start, j, f) ==
  lookahead_step(tx, LocalsAt(tx, recognizer_start(tx, start), j)).result[f]

\* the field f of the result before the token at index j was inspected
FieldBefore(tx, start, j, f) ==
  LocalsAt(tx, recognizer_start(tx, start), j).result[f]

\* the inspected token at index j filled the field f
Fills(tx, start, j, f) ==
  /\ j \in Inspected(tx, start)
  /\ FieldAfter(tx, start, j, f) # FieldBefore(tx, start, j, f)

ResultFields == {"observed_value", "unit", "reference_range"}

\* the token t has the shape the field f asks for
Qualifies(t, f) ==
  LET current == strip(t)
  IN CASE f = "observed_value" -> is_number(current) /\ ~is_reference_range(current)
       [] f = "unit" -> is_unit(current)
       [] f = "reference_range" -> is_reference_range(current)

\* the token at index j has the shape of field f and was not taken by
\* another field
QualifiesFor(tx, start, j, f) ==
  /\ Qualifies(at(tx, j), f)
  /\ \A g \in ResultFields \ {f} : ~Fills(tx, start, j, g)

\* field f was filled no later than index j: by the value after the colon of
\* the name, or by an inspected token at or before j
FilledBy(tx, start, j, f) ==
  \/ recognizer_start(tx, start).result[f] # <<>>
  \/ \E k \in Inspected(tx, start) : k <= j /\ Fills(tx, start, k, f)

\* the token has a non-empty part after a colon
StartsAnotherTest(t) ==
  /\ contains(strip(t), <<":">>)
  /\ strip(split1(strip(t), ":")[2]) # <<>>

\* what every call of parse_test_result does, whichever tokens the first
\* qualifying one is looked for in: only window tokens are inspected, left to
\* right; when all three fields are filled the last inspected token filled
\* one; a filled field is never changed; a token of reference-range shape
\* never fills observed_value
LookaheadDiscipline(tx, start, r) ==
  LET ins == Inspected(tx, start)
  IN /\ ins \subseteq Window(tx, start)
     /\ \A j \in ins : \A k \in Window(tx, start) : k < j => k \in ins
     /\ (ins # {} /\ \A f \in ResultFields : r[f] # <<>>)
          => \E j \in ins : /\ \A k \in ins : k <= j
                            /\ \E f \in ResultFields : Fills(tx, start, j, f)
     /\ \A j \in ins : \A f \in ResultFields :
          FieldBefore(tx, start, j, f) # <<>>
            => FieldAfter(tx, start, j, f) = FieldBefore(tx, start, j, f)
     /\ \A f \in ResultFields : \A j \in ins :
          Fills(tx, start, j, f) => r[f] = strip(at(tx, j))
     /\ \A j \in ins :
          Qualifies(at(tx, j), "reference_range") => ~Fills(tx, start, j, "observed_value")

\* C20 as stated: parse_test_result called on index s inspects only the
\* tokens at s + 1 .. s + 5, left to right, stops as soon as value, unit and
\* range are filled, fills each field with the first token of the window that
\* qualifies for it, never overwrites a field, and never fills observed_value
\* with a token of reference-range shape.
C20_FirstQualifyingOfWindow ==
  (pc = "scan" /\ st.accepted.some)
    => LET start == st.accepted.value.start_idx
           r == st.accepted.value.result
       IN /\ LookaheadDiscipline(texts, start, r)
          /\ \A f \in ResultFields : \A j \in Window(texts, start) :
               QualifiesFor(texts, start, j, f) => FilledBy(texts, start, j, f)

\* C20 as amended: the same, except that the lookahead also stops, once the
\* value is filled, at a token that fills nothing and has a non-empty part
\* after a colon, and each field is filled by the first qualifying token among
\* those inspected before the stop.
C20_FirstQualifyingInspected ==
  (pc = "scan" /\ st.accepted.some)
    => LET start == st.accepted.value.start_idx
           r == st.accepted.value.result
           ins == Inspected(texts, start)
       IN /\ LookaheadDiscipline(texts, start, r)
          /\ \A f \in ResultFields : \A j \in ins :
               QualifiesFor(texts, start, j, f) => FilledBy(texts, start, j, f)
          /\ ins # Window(texts, start)
               => \/ \A f \in ResultFields : r[f] # <<>>
                  \/ \E j \in ins :
                       /\ \A k \in ins : k <= j
                       /\ r.observed_value # <<>>
                       /\ StartsAnotherTest(at(texts, j))
                       /\ \A f \in ResultFields : ~Fills(texts, start, j, f)

\* the lookahead stopped at the name and value of the next test, two tokens
\* into a window of three, with the unit behind it left unread
C20_Witness ==
  /\ pc = "scan" /\ st.accepted.some
  /\ texts = <<tok_Haemoglobin, tok_13_5, tok_WBC_5000, tok_g_dl>>
  /\ st.accepted.value.start_idx = 0
  /\ Inspected(texts, 0) = {1, 2}
  /\ Window(texts, 0) = {1, 2, 3}
  /\ st.accepted.value.result.observed_value = tok_13_5
  /\ st.accepted.value.result.unit = <<>>

\* the entries parse_universal_format has filed so far
FiledEntries ==
  { st.parsed_data.haematology_report[k] : k \in 1..Len(st.parsed_data.haematology_report) }
    \cup { st.parsed_data.blood_indices[k] : k \in 1..Len(st.parsed_data.blood_indices) }

IsEntryOf(e, r) == \A k \in BaseKeys : e[k] = r[k]

\* the list after is the list before with one entry for r appended
AppendedTo(before, after, r) ==
  /\ Len(after) = Len(before) + 1
  /\ SubSeq(after, 1, Len(before)) = before
  /\ IsEntryOf(after[Len(after)], r)

\* the token, upper-cased, contains one of the literals
HasMarker(t, M) == \E x \in M : contains(upper(t), x)

\* C22: each test result accepted by parse_universal_format is appended to
\* exactly one of blood_indices and haematology_report: to blood_indices if
\* and only if its name contains an index keyword or in_blood_indices_section
\* is set at that moment, otherwise to haematology_report; an iteration that
\* accepts none leaves both lists alone; the flag is set only on an indices
\* marker and cleared only on a haematology marker.
C22_OneListByNameOrSection ==
  [][(pc = "scan" /\ pc' = "scan")
       => LET h == st.parsed_data.haematology_report
              b == st.parsed_data.blood_indices
              h2 == st'.parsed_data.haematology_report
              b2 == st'.parsed_data.blood_indices
          IN /\ IF st'.accepted.some
                THEN LET r == st'.accepted.value.result
                     IN IF is_blood_index(r.test_name) \/ st.in_blood_indices_section
                        THEN AppendedTo(b, b2, r) /\ h2 = h
                        ELSE AppendedTo(h, h2, r) /\ b2 = b
                ELSE h2 = h /\ b2 = b
             /\ (~st.in_blood_indices_section /\ st'.in_blood_indices_section)
                  => HasMarker(at(texts, st.i), INDICES_MARKERS)
             /\ (st.in_blood_indices_section /\ ~st'.in_blood_indices_section)
                  => HasMarker(at(texts, st.i), HAEMATOLOGY_MARKERS)
             /\ (HasMarker(at(texts, st.i), INDICES_MARKERS)
                   /\ ~HasMarker(at(texts, st.i), HAEMATOLOGY_MARKERS))
                  => st'.in_blood_indices_section]_vars

\* the same test was filed under blood_indices while the flag was set and
\* under haematology_report after a haematology marker had cleared it
C22_Witness ==
  /\ pc = "done"
  /\ texts = <<tok_BLOOD_INDICES, tok_Haemoglobin, tok_13_5,
               tok_HAEMATOLOGY, tok_Haemoglobin, tok_13_5>>
  /\ ~is_blood_index(tok_Haemoglobin)
  /\ Len(st.parsed_data.blood_indices) = 1
  /\ st.parsed_data.blood_indices[1].test_name = tok_Haemoglobin
  /\ Len(st.parsed_data.haematology_report) = 1
  /\ st.parsed_data.haematology_report[1].test_name = tok_Haemoglobin
  /\ ~st.in_blood_indices_section

\* the entry the step of the main scan appended
LastFiled ==
  IF Len(st'.parsed_data.blood_indices) > Len(st.parsed_data.blood_indices)
  THEN st'.parsed_data.blood_indices[Len(st'.parsed_data.blood_indices)]
  ELSE st'.parsed_data.haematology_report[Len(st'.parsed_data.haematology_report)]

\* C23: current_category is never cleared during a parse: it changes only
\* when a Differential Count or Absolute Count marker is processed, to that
\* marker's label; every test result accepted while it is set, in either
\* list and also after a later section marker, carries it as category, and
\* results accepted before any category marker have no category key.
C23_CategoryNeverCleared ==
  [][(pc = "scan" /\ pc' = "scan")
       => /\ st.current_category.some => st'.current_category.some
          /\ st'.current_category # st.current_category
               => /\ st'.stored = {}
                  /\ \/ /\ HasMarker(at(texts, st.i), DIFFERENTIAL_MARKERS)
                        /\ st'.current_category = Some(DifferentialCount)
                     \/ /\ HasMarker(at(texts, st.i), ABSOLUTE_MARKERS)
                        /\ st'.current_category = Some(AbsoluteCount)
          /\ st'.accepted.some
               => IF st.current_category.some
                  THEN /\ "category" \in DOMAIN LastFiled
                       /\ LastFiled.category = st.current_category.value
                  ELSE "category" \notin DOMAIN LastFiled]_vars

\* one result without category before the first marker, one under
\* Differential Count, one in blood_indices after a haematology marker still
\* under Differential Count, and one under Absolute Count
C23_Witness ==
  /\ pc = "done"
  /\ Len(st.parsed_data.haematology_report) = 3
  /\ Len(st.parsed_data.blood_indices) = 1
  /\ "category" \notin DOMAIN st.parsed_data.haematology_report[1]
  /\ st.parsed_data.haematology_report[2].category = DifferentialCount
  /\ st.parsed_data.blood_indices[1].category = DifferentialCount
  /\ st.parsed_data.haematology_report[3].category = AbsoluteCount
  /\ st.in_haematology_section

\* C24: when in_morphology_section is set and the current token matches a
\* morphology-field keyword, the value the value-extraction rule obtains for
\* it is stored in morphology under the canonical field name.
C24_MorphologyFieldStored ==
  [][(/\ pc = "scan" /\ pc' = "scan"
      /\ st.in_morphology_section
      /\ some_field_matches(at(texts, st.i), COMMON_MORPHOLOGY_FIELDS)
      /\ extract_value_after_colon(texts, st.i).some)
       => LET field_name ==
                COMMON_MORPHOLOGY_FIELDS[first_match(at(texts, st.i),
                                                     COMMON_MORPHOLOGY_FIELDS)].field
              value == extract_value_after_colon(texts, st.i).value
          IN /\ has(st'.parsed_data.morphology, field_name)
             /\ startswith(get(st'.parsed_data.morphology, field_name), value)]_vars

\* the trimmed text after the first ":" of the token t, empty without a colon
AfterFirstColon(t) ==
  LET colons == {k \in 1..Len(t) : t[k] = ":"}
  IN IF colons = {} THEN <<>>
     ELSE strip(SubSeq(t, (CHOOSE k \in colons : \A m \in colons : k <= m) + 1, Len(t)))

\* the token t, trimmed, can be a value: it is not empty, not a bare mark and
\* does not start with ":"
UsableValue(t) ==
  LET value == strip(t)
  IN value # <<>> /\ value \notin {<<":">>, <<".">>, <<"\"">>, <<"'">>} /\ value[1] # ":"

\* extract_value_after_colon(tx, s) is what C25 says it is
ValueRuleAt(tx, s) ==
  LET v == extract_value_after_colon(tx, s)
      ahead == {k \in 1..3 : s + k < Len(tx)}
  IN IF AfterFirstColon(at(tx, s)) # <<>>
     THEN v = Some(AfterFirstColon(at(tx, s)))
     ELSE IF \E k \in ahead : UsableValue(at(tx, s + k))
     THEN \E k \in ahead :
            /\ UsableValue(at(tx, s + k))
            /\ \A m \in ahead : m < k => ~UsableValue(at(tx, s + m))
            /\ v = Some(strip(at(tx, s + k)))
     ELSE v = None

\* C25, the function: at every index s of the token list,
\* extract_value_after_colon returns the trimmed text after the first ":" of
\* token s when that is non-empty, otherwise the first usable token among
\* s + 1, s + 2, s + 3, otherwise no value.
C25_ValueRule ==
  pc \in {"scan", "reader"} => \A s \in 0..(Len(texts) - 1) : ValueRuleAt(texts, s)

\* C25, the rules: an iteration of the main scan in which the patient rule,
\* the lab rule (fields other than name) or the morphology rule wrote a field
\* had a value from extract_value_after_colon at the index that rule used.
C25_NoValueNothingRecorded ==
  [][(pc = "scan" /\ pc' = "scan")
       => LET text == at(texts, st.i)
              s1 == patient_rule(texts, text, st, 1)
              s2 == lab_rule(texts, text, s1, 1)
          IN /\ st'.parsed_data.patient_info # st.parsed_data.patient_info
                  => extract_value_after_colon(texts, st.i).some
             /\ (/\ st'.parsed_data.laboratory_info # st.parsed_data.laboratory_info
                 /\ COMMON_LAB_FIELDS[first_match(text, COMMON_LAB_FIELDS)].field # "name")
                  => extract_value_after_colon(texts, s1.i).some
             /\ st'.parsed_data.morphology # st.parsed_data.morphology
                  => extract_value_after_colon(texts, s2.i).some
             /\ (/\ some_field_matches(text, COMMON_PATIENT_FIELDS)
                 /\ ~HasMarker(text, HAEMATOLOGY_MARKERS \cup INDICES_MARKERS
                                       \cup DIFFERENTIAL_MARKERS \cup ABSOLUTE_MARKERS
                                       \cup MORPHOLOGY_MARKERS)
                 /\ ~extract_value_after_colon(texts, st.i).some)
                  => st'.parsed_data.patient_info = st.parsed_data.patient_info]_vars

C26_NoPatientFieldInLabName ==
  [][(pc = "scan" /\ pc' = "scan")
       => LET text == at(texts, st.i)
              next == patient_rule(texts, text, st, 1).i + 1
          IN (/\ "lab" \in st'.stored
              /\ COMMON_LAB_FIELDS[first_match(text, COMMON_LAB_FIELDS)].field = "name"
              /\ next < Len(texts)
              /\ some_field_matches(at(texts, next), COMMON_PATIENT_FIELDS))
               => get(st'.parsed_data.laboratory_info, "name") = text]_vars

SectionMarkers ==
  HAEMATOLOGY_MARKERS \cup INDICES_MARKERS \cup DIFFERENTIAL_MARKERS
    \cup ABSOLUTE_MARKERS \cup MORPHOLOGY_MARKERS

\* C27: after any section marker processed by parse_universal_format the run
\* of known column-header tokens that immediately follows it is skipped: the
\* next iteration starts behind the run, and the marker's iteration adds
\* nothing to the report.
C27_HeadersSkippedAfterMarker ==
  [][(pc = "scan" /\ pc' = "scan" /\ HasMarker(at(texts, st.i), SectionMarkers))
       => /\ st'.i = skip_headers(texts, st.i + 1)
          /\ st'.parsed_data = st.parsed_data]_vars

\* the trimmed text before the first ":" of the token t
BeforeFirstColon(t) ==
  LET colons == {k \in 1..Len(t) : t[k] = ":"}
  IN strip(SubSeq(t, 1, (CHOOSE k \in colons : \A m \in colons : k <= m) - 1))

\* the value of other_fields under key, as the list of the strings written
Written(other, key) == IF has(other, key) THEN get(other, key).items ELSE <<>>

\* C28, the shape: in other_fields a key written once maps to a single
\* string and a key written more often to a list of at least two; every raw
\* key is the trimmed text before the first ":" of a token and is longer than
\* two characters.
C28_OtherFieldsShape ==
  \A n \in 1..Len(st.parsed_data.other_fields) :
    LET e == st.parsed_data.other_fields[n]
    IN /\ e.value.list = (Len(e.value.items) >= 2)
       /\ Len(e.value.items) >= 1
       /\ Len(e.key) > 2
       /\ \E j \in 1..Len(texts) : contains(texts[j], <<":">>) /\ e.key = BeforeFirstColon(texts[j])
       /\ \A m \in 1..Len(st.parsed_data.other_fields) :
            st.parsed_data.other_fields[m].key = e.key => m = n

\* C28, the writes: a step of the main scan leaves every key of other_fields
\* in place and either changes nothing or appends one value to the strings
\* written under one key; no value is overwritten or dropped.
C28_OtherFieldsWrites ==
  [][(pc = "scan" /\ pc' = "scan")
       => LET other == st.parsed_data.other_fields
              other2 == st'.parsed_data.other_fields
              keys == {other[n].key : n \in 1..Len(other)}
              keys2 == {other2[n].key : n \in 1..Len(other2)}
          IN /\ keys \subseteq keys2
             /\ IF "other" \in st'.stored
                THEN \E key \in keys2 :
                       /\ key = BeforeFirstColon(at(texts, st.i))
                       /\ Len(Written(other2, key)) = Len(Written(other, key)) + 1
                       /\ SubSeq(Written(other2, key), 1, Len(Written(other, key)))
                            = Written(other, key)
                       /\ \A k \in keys2 \ {key} : Written(other2, k) = Written(other, k)
                ELSE other2 = other]_vars

\* C28: both parts
C28_OtherFieldsPromotion ==
  [](C28_OtherFieldsShape) /\ C28_OtherFieldsWrites

\* one key written three times, in write order, and the two-character key
\* not kept
C28_Witness ==
  /\ pc = "done"
  /\ Len(st.parsed_data.other_fields) = 1
  /\ st.parsed_data.other_fields[1].key = <<"K","e","y">>
  /\ st.parsed_data.other_fields[1].value = [list |-> TRUE, items |-> <<<<"a">>, <<"b">>, <<"d">>>>]

\* the literal that gives the tag
TagLiteral(tag) ==
  CASE tag = "parth" -> <<"P","A","R","T","H">>
    [] tag = "grant" -> <<"G","R","A","N","T">>
    [] tag = "arfa" -> <<"A","R","F","A">>

\* the literal occurs in a token at index 50 or later
BehindWindow(literal) ==
  \E k \in 1..Len(texts) : k > 50 /\ contains(upper(texts[k]), literal)

\* C29: detect_report_format looks only at the first 50 tokens: a tag other
\* than unknown has its literal among them, and a sequence whose first 50
\* tokens contain none of the literals is tagged unknown whatever follows.
C29_OnlyFirstFiftyTokens ==
  format_type # ""
    => /\ format_type # "unknown" => InWindow(TagLiteral(format_type))
       /\ (\A tag \in {"parth", "grant", "arfa"} : ~InWindow(TagLiteral(tag)))
            => format_type = "unknown"

\* the literal is the 51st token: the tag is unknown
C29_Witness ==
  /\ format_type = "unknown"
  /\ Len(texts) = 51
  /\ BehindWindow(TagLiteral("grant"))
  /\ ~InWindow(TagLiteral("grant"))

\* the locals of a reader with its cursor at index k
CursorAt(k) == [rd EXCEPT !.i = k]

\* the locals a lookahead of parse_arfa_format can hold at index j
LookaheadLocals(j) ==
  [j : {j}, value : {<<>>, <<"1">>}, unit : {<<>>, <<"%">>},
   ref_range : {<<>>, <<"1","-","2">>}, found_range : BOOLEAN]

\* the next iteration of the main scan leaves the cursor strictly greater
ScanAdvances ==
  pc = "scan" /\ st.i < Len(texts) => scan_iteration(texts, st).i > st.i

\* the next iteration of the reader's outer loop leaves the cursor strictly
\* greater
ReaderAdvances ==
  pc = "reader" /\ rd.i < Len(texts)
    => reader_iteration(reader.name, texts, rd).i > rd.i

\* a pass of an inner loop of parse_parth_format at index k
ParthInnerAdvance(k) ==
  /\ at(texts, k) \in PARTH_COLUMNS => parth_skip_columns(texts, k) > k
  /\ ~parth_haematology_breaks(texts, CursorAt(k))
       => parth_haematology_pass(texts, CursorAt(k)).i > k
  /\ ~parth_differential_breaks(texts, CursorAt(k))
       => parth_differential_pass(texts, CursorAt(k)).i > k
  /\ ~parth_indices_breaks(texts, CursorAt(k))
       => parth_indices_pass(texts, CursorAt(k)).i > k

\* a pass of an inner loop of parse_grant_format at index k
GrantInnerAdvance(k) ==
  /\ at(texts, k) \in GRANT_COLUMNS => grant_skip_columns(texts, k) > k
  /\ ~grant_haematology_breaks(texts, CursorAt(k))
       => \A in_differential_count \in BOOLEAN :
            grant_haematology_pass(texts, CursorAt(k), in_differential_count).i > k

\* a pass of an inner loop of parse_arfa_format at index k, and a pass of the
\* lookahead that started at index k
ArfaInnerAdvance(k) ==
  /\ at(texts, k) \in ARFA_COLUMNS => arfa_skip_columns(texts, k) > k
  /\ ~arfa_haematology_breaks(texts, CursorAt(k))
       => arfa_haematology_pass(texts, CursorAt(k)).i > k
  /\ \A j \in (k + 1)..(k + arfa_horizon - 1) :
       j < Len(texts)
         => \A a \in LookaheadLocals(j) : arfa_lookahead_pass(texts, a).j > j

\* a pass of each inner loop of the running reader, at every index of its list
InnerLoopsAdvance ==
  pc = "reader"
    => \A k \in 0..(Len(texts) - 1) :
         CASE reader.name = "parth" -> ParthInnerAdvance(k)
           [] reader.name = "grant" -> GrantInnerAdvance(k)
           [] OTHER -> ArfaInnerAdvance(k)

\* an iteration of the main scan or of a reader's outer loop has just run
Iterated ==
  \/ pc = "scan" /\ pc' = "scan" /\ st' # st
  \/ pc = "reader" /\ pc' = "reader" /\ rd' # rd

\* C30: every iteration of the main scan of parse_universal_format leaves the
\* cursor strictly greater than it found it, whichever rules match, and so do
\* the iterations of the outer and inner loops of the parth, grant and arfa
\* readers, at every index of the token list.
C30_CursorStrictlyAdvances ==
  /\ [](ScanAdvances /\ ReaderAdvances /\ InnerLoopsAdvance)
  /\ [][Iterated => st'.i >= st.i /\ rd'.i >= rd.i /\ st'.i + rd'.i > st.i + rd.i]_vars

\* a reader read a list to its end, found nothing, and the main scan then
\* read the same list to its end, one of its iterations moving the cursor by
\* more than one
C30_Witness ==
  /\ pc = "done"
  /\ reader.outcome = "returned"
  /\ rd.i >= Len(texts)
  /\ st.i >= Len(texts)
  /\ Cardinality(st.visited) >= 2
  /\ Cardinality(st.visited) < Len(texts)

=============================================================================
